---- MODULE Spec2Model ----
(***************************************************************************)
(* A TLA+ model of the extraction orchestration layer of CVInsight:        *)
(*   - the phased, thread-pool based orchestrator                          *)
(*     (cvinsight/notebook_utils.py: parse_single_resume,                  *)
(*      extract_with_optimized_plugins, parse_many_resumes);               *)
(*   - the scoped override of job_description/date_of_resume_submission    *)
(*     in the context-holding extractors (RelevantYoEExtractorPlugin,      *)
(*     ExtendedAnalysisExtractorPlugin);                                   *)
(*   - the LLM invocation service (llm_service.extract_with_llm and        *)
(*     cvinsight/core/llm_service.py LLMService.extract_with_llm);         *)
(*   - the token-usage aggregation of ResumeProcessor.process_resume.      *)
(***************************************************************************)
EXTENDS Integers, Sequences, FiniteSets, TLC

(***************************************************************************)
(* Bounds of the model.                                                    *)
(***************************************************************************)
\* at most this many extractor names are missing from the registry
MaxMissing == 1

\* number of threads calling extract on one shared extractor instance
MaxCallers == 2

\* longest resume_paths list
MaxDocs == 3

\* largest max_workers argument
MaxWorkers == 2

\* longest template literal text / substituted value, in characters
MaxLen == 3

\* longest str(result), in characters
MaxResultLen == 5

\* largest total_tokens of one extractor's usage
MaxTokens == 1

\* most resume files found in resume_dir
MaxFiles == 2

\* config.MAX_PDF_SIZE_MB
MAX_PDF_SIZE_MB == 10

(***************************************************************************)
(* Shared vocabulary.                                                      *)
(***************************************************************************)
NoneV == "None"

\* the empty mapping {}: every .get(field, default) on it yields the default
EmptyResult == <<"{}">>

\* a key that is not (yet) present in a dict
Absent == <<"absent">>

(***************************************************************************)
(* The extractors run by extract_with_optimized_plugins, by phase, in the  *)
(* order in which the code submits them and iterates over `futures`.       *)
(***************************************************************************)
Order1 == <<"profile", "skills", "education", "experience", "social">>

Order2 == <<"yoe", "education_stats", "work_stats">>

RelevantYoe == "relevant_yoe"

SeqRange(s) == {s[i] : i \in 1..Len(s)}

Phase1 == SeqRange(Order1)

Phase2 == SeqRange(Order2)

Phase3 == {RelevantYoe}

Extractors == Phase1 \cup Phase2 \cup Phase3

PhaseOrder(p) == IF p = 1 THEN Order1 ELSE Order2

PhaseSet(p) == IF p = 1 THEN Phase1 ELSE IF p = 2 THEN Phase2 ELSE Phase3

\* the Phase-1 result each Phase-2 extractor is handed as its input
DependsOn(e) ==
    CASE e = "yoe" -> "experience"
      [] e = "education_stats" -> "education"
      [] e = "work_stats" -> "experience"

\* the (non-empty) result mapping extractor e returns when its call succeeds
ValueOf(e) == <<"result", e>>

\* what a future holds: nothing yet, the call's result, or its exception
NoOutcome == <<"none">>

Raised == <<"exception">>

Discarded == <<"discarded">>

VARIABLES
    \* ---- one document in parse_single_resume / extract_with_optimized_plugins
    opc,          \* position of the orchestrating thread
    fileOk,       \* input: read_file(path) succeeds
    jdParam,      \* input: job_description argument (NoneV when not given)
    dateParam,    \* input: date_of_resume_submission argument
    registered,   \* input: names present in client._plugin_manager.extractors
    call,         \* per extractor: state of its extract call
    outcome,      \* per extractor: what its future holds for the orchestrator
    widx,         \* index of the future the orchestrator waits on
    results,      \* base_results / yoe_result / ... as held by the orchestrator
    waitres,      \* per extractor: how future.result(timeout=60) ended
    arg,          \* per Phase-2/3 extractor: the upstream result passed to it
    record,       \* the row returned by parse_single_resume
    \* ---- the shared context-holding extractor instance
    job_description,
    date_of_resume_submission,
    plugin,       \* which class the instance is
    frame,        \* per calling thread: the frame of its extract call
    \* ---- one batch in parse_many_resumes
    bpc,          \* position of the thread that called parse_many_resumes
    npaths,       \* input: len(resume_paths); path i is the i-th of the list
    corrupt,      \* input: the paths whose processing raises
    parallel,     \* input
    max_workers,  \* input
    future,       \* per path: state and result of its submitted call
    bidx,         \* sequential mode: index of the path being processed
    data_list,    \* the rows collected so far
    \* ---- one call of an extractor's extract and of extract_with_llm in it
    lpc,          \* position inside extract / extract_with_llm
    llmIn,        \* input: extractor class, template, data, what the model does
    result,       \* extract_with_llm's local `result`
    token_usage,  \* extract_with_llm's local `token_usage`
    extracted,    \* what extract returned
    \* ---- the token aggregation of ResumeProcessor.process_resume
    tpc,                  \* position in process_resume
    usages,               \* input: the usage each extractor's extract returned
    tidx,                 \* index of the usage the loop is at
    total_token_usage,
    is_using_estimation,
    \* ---- ResumeProcessor.process_all_resumes / process_resume
    ppc,              \* position in process_all_resumes / process_resume
    pmode,            \* input: process_resume called directly, or the loop
    nfiles,           \* input: len(pdf_files)
    pidx,             \* index of the file the loop is at
    pfile,            \* the file at pdf_file_path, as validate_file sees it
    pcall,            \* per extractor: state of the submitted extract call
    presult,          \* what process_resume returned
    plog,             \* the last message process_resume logged as an error
    processed_count,
    error_count,
    \* ---- one call of an extractor's process_output
    xpc,              \* position: before or after process_output
    xcls,             \* input: the extractor
    raw_output,       \* input: the raw LLM output, per declared field
    processed,        \* what process_output returned, per declared field
    \* ---- RelevantYoEExtractorPlugin: map_degree_to_years / process_output
    ypc,              \* position: before or after the call
    education_info,   \* input: the education_stats result passed in
    llm_result,       \* input: the LLM result passed to process_output
    mapped_years,     \* what map_degree_to_years returned
    result_dict,      \* what process_output returned
    result_again,     \* what a second process_output call on it returned
    \* ---- the list field of one LLM output through its extractor
    zpc,              \* position: before process_output, after it, consumed
    zcls,             \* input: the extractor
    output,           \* input: the LLM output and its list field
    list_result,      \* what process_output / extract made of it
    document,         \* what the caller made of the document
    \* ---- one call of calculate_experience
    cpc,              \* position: before or after the call
    oldest_date_str,  \* input
    newest_date_str,  \* input
    experience        \* the returned "X Years Y Months", as its two numbers

instVars == <<job_description, date_of_resume_submission>>

orchInputs == <<fileOk, jdParam, dateParam, registered>>

orchVars == <<opc, fileOk, jdParam, dateParam, registered, call, outcome,
              widx, results, waitres, arg, record>>

ctxVars == <<plugin, frame>>

batchVars == <<bpc, npaths, corrupt, parallel, max_workers, future, bidx,
               data_list>>

llmVars == <<lpc, llmIn, result, token_usage, extracted>>

tokVars == <<tpc, usages, tidx, total_token_usage, is_using_estimation>>

procVars == <<ppc, pmode, nfiles, pidx, pfile, pcall, presult, plog,
              processed_count, error_count>>

outVars == <<xpc, xcls, raw_output, processed>>

yoeVars == <<ypc, education_info, llm_result, mapped_years, result_dict,
             result_again>>

listVars == <<zpc, zcls, output, list_result, document>>

dateVars == <<cpc, oldest_date_str, newest_date_str, experience>>

\* everything the single-document orchestrator does not touch
nonOrchVars == <<ctxVars, batchVars, llmVars, tokVars, procVars,
    outVars, yoeVars, listVars, dateVars>>

\* everything the extract calls on the shared instance do not touch
nonCtxVars == <<orchVars, batchVars, llmVars, tokVars, procVars,
    outVars, yoeVars, listVars, dateVars>>

\* everything parse_many_resumes itself does not touch
nonBatchVars == <<orchVars, instVars, ctxVars, llmVars, tokVars, procVars,
    outVars, yoeVars, listVars, dateVars>>

\* everything one extract_with_llm call does not touch
nonLlmVars == <<orchVars, instVars, ctxVars, batchVars, tokVars, procVars,
    outVars, yoeVars, listVars, dateVars>>

\* everything the token aggregation does not touch
nonTokVars == <<orchVars, instVars, ctxVars, batchVars, llmVars, procVars,
    outVars, yoeVars, listVars, dateVars>>

\* everything ResumeProcessor does not touch
nonProcVars == <<orchVars, instVars, ctxVars, batchVars, llmVars, tokVars,
    outVars, yoeVars, listVars, dateVars>>

\* everything process_output of the other extractors does not touch
nonOutVars == <<orchVars, instVars, ctxVars, batchVars, llmVars, tokVars,
    procVars, yoeVars, listVars, dateVars>>

\* everything the relevant-YoE post-processing does not touch
nonYoeVars == <<orchVars, instVars, ctxVars, batchVars, llmVars, tokVars,
    procVars, outVars, listVars, dateVars>>

\* everything the list-field processing does not touch
nonListVars == <<orchVars, instVars, ctxVars, batchVars, llmVars, tokVars,
    procVars, outVars, yoeVars, dateVars>>

\* everything calculate_experience does not touch
nonDateVars == <<orchVars, instVars, ctxVars, batchVars, llmVars, tokVars,
    procVars, outVars, yoeVars, listVars>>

vars == <<orchVars, instVars, ctxVars, batchVars, llmVars, tokVars, procVars,
    outVars, yoeVars, listVars, dateVars>>

\* RelevantYoEExtractorPlugin.__init__: the built-in job description, no date
DefaultJD == "DefaultJD"

InstInit ==
    /\ job_description = DefaultJD
    /\ date_of_resume_submission = NoneV

(***************************************************************************)
(* parse_single_resume + extract_with_optimized_plugins, one document.     *)
(***************************************************************************)
NoRecord == [parsing_status |-> "none"]

\* results as initialised by the code: base_results = {} (no keys yet);
\* yoe_result = education_stats_result = work_stats_result = {} and
\* relevant_yoe_result = {}
InitResults == [e \in Extractors |-> IF e \in Phase1 THEN Absent ELSE EmptyResult]

Registries == {Extractors \ m : m \in {x \in SUBSET Extractors : Cardinality(x) <= MaxMissing}}

OrchIdle ==
    /\ opc = "start"
    /\ call = [e \in Extractors |-> "none"]
    /\ outcome = [e \in Extractors |-> NoOutcome]
    /\ widx = 0
    /\ results = InitResults
    /\ waitres = [e \in Extractors |-> "pending"]
    /\ arg = [e \in Phase2 \cup Phase3 |-> Absent]
    /\ record = NoRecord

(***************************************************************************)
(* extract on a context-holding extractor: values and the idle frame       *)
(***************************************************************************)
Callers == 1..MaxCallers

RelevantYoEExtractorPlugin == "RelevantYoEExtractorPlugin"
ExtendedAnalysisExtractorPlugin == "ExtendedAnalysisExtractorPlugin"
Plugins == {RelevantYoEExtractorPlugin, ExtendedAnalysisExtractorPlugin}

\* a job_description that is truthy and not a str (no .strip attribute)
NonStr == "NonStr"
\* a job_description that is a non-empty, whitespace-only str
Blank == "Blank"
\* datetime.now().strftime("%Y-%m-%d")
Today == "today"

\* the context of the document thread c works on
JDOf(c) == <<"JD1", "JD2", "JD3">>[c]
DateOf(c) == <<"D1", "D2", "D3">>[c]

\* the locals of one extract call; nothing is bound before the call starts
IdleFrame ==
    [pc |-> "idle", jd |-> NoneV, date |-> NoneV,
     original_job_description |-> NoneV, original_date |-> NoneV,
     in_jd |-> NoneV, in_date |-> NoneV, res |-> "none"]

CtxIdle ==
    /\ plugin = RelevantYoEExtractorPlugin
    /\ frame = [c \in Callers |-> IdleFrame]

\* no batch has been started
BatchIdle ==
    /\ bpc = "idle"
    /\ npaths = 0
    /\ corrupt = {}
    /\ parallel = FALSE
    /\ max_workers = 1
    /\ future = <<>>
    /\ bidx = 0
    /\ data_list = <<>>

\* no single document is being orchestrated
OrchOff ==
    /\ OrchIdle
    /\ fileOk = TRUE
    /\ jdParam = NoneV
    /\ dateParam = NoneV
    /\ registered = Extractors

Unset == <<"unset">>

\* token_usage as extract_with_llm initialises it; is_estimated and extractor
\* are the keys added later (absent keys read as False / "unknown")
InitUsage ==
    [total_tokens |-> 0, prompt_tokens |-> 0, completion_tokens |-> 0,
     source |-> "not_set", is_estimated |-> FALSE, extractor |-> "unknown"]

\* no extract_with_llm call has been started
LlmIdle ==
    /\ lpc = "idle"
    /\ llmIn = Unset
    /\ result = Unset
    /\ token_usage = InitUsage
    /\ extracted = Unset

\* the five extractors ResumeProcessor.__init__ creates
ProcExtractors == {"profile", "skills", "education", "experience", "yoe"}

NoFile == [exists |-> FALSE, ext |-> "", size_mb |-> 0, readable |-> FALSE]

NoReturn == [kind |-> "unset"]

\* no ResumeProcessor call has been started
ProcIdle ==
    /\ ppc = "idle"
    /\ pmode = "all"
    /\ nfiles = 0
    /\ pidx = 0
    /\ pfile = NoFile
    /\ pcall = [e \in ProcExtractors |-> "none"]
    /\ presult = NoReturn
    /\ plog = ""
    /\ processed_count = 0
    /\ error_count = 0

\* no process_output call has been started
OutIdle ==
    /\ xpc = "idle"
    /\ xcls = "none"
    /\ raw_output = <<>>
    /\ processed = <<>>

\* a str as the sequence of its characters
NoStr == <<>>

\* None, for a number of years (years are counted in tenths, so 0.5 is 5)
Null == -1

\* the fields of RelevantYearsOfExperience
YoeFields ==
    {"relevant_education_years", "relevant_job_experience_years",
     "total_relevant_experience_years", "relevant_edu_yoe", "all_edu_yoe",
     "relevant_work_yoe", "all_work_yoe", "relevant_total_yoe", "all_total_yoe"}

\* education_info = None
NoInfo ==
    [given |-> FALSE, has_degree |-> FALSE, highest_degree |-> NoStr,
     highest_degree_status |-> NoStr]

\* no map_degree_to_years / process_output call has been started
YoeIdle ==
    /\ ypc = "idle"
    /\ education_info = NoInfo
    /\ llm_result = [f \in YoeFields |-> Null]
    /\ mapped_years = Null
    /\ result_dict = [f \in YoeFields |-> Null]
    /\ result_again = [f \in YoeFields |-> Null]

\* an LLM output with its list field: the output is a dict or an object, the
\* field is missing, null, or a list of n items of one kind
NoList == [kind |-> "absent", item |-> "none", n |-> 0]

NoOutput == [shape |-> "none", field |-> NoList]

NoListResult == [raised |-> FALSE, value |-> NoList]

ListIdle ==
    /\ zpc = "idle"
    /\ zcls = "none"
    /\ output = NoOutput
    /\ list_result = NoListResult
    /\ document = "none"

\* a date argument: None, or a str that is empty, no date, or dd/mm/yyyy
NoDate == [kind |-> "None", day |-> 0, month |-> 0, year |-> 0]

NoExperience == [years |-> 0, months |-> 0]

DateIdle ==
    /\ cpc = "idle"
    /\ oldest_date_str = NoDate
    /\ newest_date_str = NoDate
    /\ experience = NoExperience

\* total_token_usage as process_resume initialises it
InitTotal ==
    [total_tokens |-> 0, prompt_tokens |-> 0, completion_tokens |-> 0,
     by_extractor |-> <<>>, source |-> "multiple", is_estimated |-> FALSE]

\* no aggregation has been started
TokIdle ==
    /\ tpc = "idle"
    /\ usages = <<>>
    /\ tidx = 0
    /\ total_token_usage = InitTotal
    /\ is_using_estimation = FALSE

OrchInit ==
    /\ ListIdle
    /\ DateIdle
    /\ OrchIdle
    /\ CtxIdle
    /\ BatchIdle
    /\ LlmIdle
    /\ TokIdle
    /\ ProcIdle
    /\ OutIdle
    /\ YoeIdle
    /\ fileOk \in BOOLEAN
    /\ jdParam \in {NoneV, "JD1"}
    /\ dateParam \in {NoneV, "2024-02-01"}
    /\ registered \in Registries
    /\ InstInit

\* os.path.basename(resume_path)
FileName == "resume.pdf"

\* the except clause of parse_single_resume without the "error" key
FailedRecordNoReason(msg) == [filename |-> FileName, parsing_status |-> "failed"]

\* parse_single_resume: the except clause turns any exception into a row
FailedRecord(msg) ==
    [filename |-> FileName, parsing_status |-> "failed", error |-> msg]

\* read_file(resume_path) at the top of parse_single_resume and again at the
\* top of extract_with_optimized_plugins
ReadFile ==
    /\ opc = "start"
    /\ IF fileOk
         THEN /\ opc' = "p1_submit"
              /\ record' = record
         ELSE /\ opc' = "done"
              /\ record' = FailedRecord("read_file")
    /\ UNCHANGED <<orchInputs, call, outcome, widx, results, waitres, arg, instVars>>
    /\ UNCHANGED nonOrchVars

\* the extractors of phase p whose executor.submit(...) is reached: the
\* registry lookup of a missing name raises KeyError inside the with block,
\* so nothing after the first missing name is submitted
Launched(p) ==
    LET ord == PhaseOrder(p)
        missing == {i \in 1..Len(ord) : ord[i] \notin registered}
    IN  {ord[i] : i \in {j \in 1..Len(ord) : \A m \in missing : j < m}}

\* the argument each call of phase p is submitted with
SubmitArg(e) == IF e \in Phase2 THEN results[DependsOn(e)] ELSE arg[e]

PcOf(p, what) ==
    CASE what = "submit" -> (IF p = 1 THEN "p1_submit" ELSE "p2_submit")
      [] what = "wait" -> (IF p = 1 THEN "p1_wait" ELSE "p2_wait")
      [] what = "join" -> (IF p = 1 THEN "p1_join" ELSE "p2_join")
      [] what = "abort" -> (IF p = 1 THEN "p1_abort" ELSE "p2_abort")
      [] what = "next" -> (IF p = 1 THEN "p2_submit" ELSE "p3_call")

\* executor.submit(...) for the extractors of the phase
Submit(p) ==
    /\ opc = PcOf(p, "submit")
    /\ call' = [e \in Extractors |-> IF e \in Launched(p) THEN "running" ELSE call[e]]
    /\ arg' = [e \in DOMAIN arg |-> IF e \in Launched(p) THEN SubmitArg(e) ELSE arg[e]]
    /\ IF Launched(p) = PhaseSet(p)
         THEN /\ opc' = PcOf(p, "wait")
              /\ widx' = 1
         ELSE /\ opc' = PcOf(p, "abort")
              /\ widx' = 0
    /\ UNCHANGED <<orchInputs, outcome, results, waitres, record, instVars>>
    /\ UNCHANGED nonOrchVars

\* an extract call running on a pool thread (or, in Phase 3, on the
\* orchestrating thread itself) returns its result or raises.  The future
\* of a call the orchestrator has already given up on (TimeoutError) is
\* never read again: its outcome is discarded.
Finish(e) ==
    /\ call[e] = "running"
    /\ call' = [call EXCEPT ![e] = "finished"]
    /\ \E o \in {ValueOf(e), Raised} :
         outcome' = [outcome EXCEPT ![e] = IF waitres[e] = "timeout" THEN Discarded ELSE o]
    /\ UNCHANGED <<opc, orchInputs, widx, results, waitres, arg, record, instVars>>
    /\ UNCHANGED nonOrchVars

\* the orchestrator's results after `result, _ = future.result(timeout=60)`
\* returned normally for extractor e
ResultsAfterReturn(res, e, v) == [res EXCEPT ![e] = v]

ResultsAllDefault(res, e) ==
    [f \in DOMAIN res |-> IF f \in Phase1 THEN EmptyResult ELSE res[f]]

\* ... and after it raised (the extractor's exception, or TimeoutError):
\* Phase 1 stores {} under that key, Phase 2 leaves the initial {} in place
ResultsAfterException(res, e) == [res EXCEPT ![e] = EmptyResult]

AfterWait(p) ==
    IF widx = Len(PhaseOrder(p))
      THEN /\ opc' = PcOf(p, "join")
           /\ widx' = 0
      ELSE /\ opc' = opc
           /\ widx' = widx + 1

\* future.result(timeout=60) on a future that is done
Collect(p) ==
    /\ opc = PcOf(p, "wait")
    /\ LET e == PhaseOrder(p)[widx] IN
         /\ call[e] = "finished"
         /\ IF outcome[e] = Raised
              THEN /\ results' = ResultsAfterException(results, e)
                   /\ waitres' = [waitres EXCEPT ![e] = "exception"]
              ELSE /\ results' = ResultsAfterReturn(results, e, outcome[e])
                   /\ waitres' = [waitres EXCEPT ![e] = "ok"]
    /\ AfterWait(p)
    /\ UNCHANGED <<orchInputs, call, outcome, arg, record, instVars>>
    /\ UNCHANGED nonOrchVars

\* future.result(timeout=60) on a future that is still running after 60 s:
\* TimeoutError, handled like the extractor's own exception
Timeout(p) ==
    /\ opc = PcOf(p, "wait")
    /\ LET e == PhaseOrder(p)[widx] IN
         /\ call[e] = "running"
         /\ results' = ResultsAfterException(results, e)
         /\ waitres' = [waitres EXCEPT ![e] = "timeout"]
    /\ AfterWait(p)
    /\ UNCHANGED <<orchInputs, call, outcome, arg, record, instVars>>
    /\ UNCHANGED nonOrchVars

JoinNoWait(p) == TRUE

\* leaving `with ThreadPoolExecutor() as executor:` calls
\* executor.shutdown(wait=True): it returns once every submitted call is done
JoinReady(p) == \A e \in PhaseSet(p) : call[e] # "running"

Join(p) ==
    /\ opc = PcOf(p, "join")
    /\ JoinReady(p)
    /\ opc' = PcOf(p, "next")
    /\ UNCHANGED <<orchInputs, call, outcome, widx, results, waitres, arg,
                   record, instVars>>
    /\ UNCHANGED nonOrchVars

\* the results after an exception escaped the with block of phase p:
\* Phase 1 resets base_results to all-empty, Phase 2 does `pass`
ResultsAfterAbort(res, p) ==
    IF p = 1 THEN [f \in DOMAIN res |-> IF f \in Phase1 THEN EmptyResult ELSE res[f]]
             ELSE res

\* a launch failure that fails the whole document
LaunchFailedFatal(p) ==
    /\ opc = PcOf(p, "abort")
    /\ JoinReady(p)
    /\ record' = [filename |-> FileName, parsing_status |-> "failed", error |-> "KeyError"]
    /\ opc' = "done"
    /\ UNCHANGED <<orchInputs, call, outcome, widx, results, waitres, arg, instVars>>
    /\ UNCHANGED nonOrchVars

\* a KeyError raised by a submit line leaves the with block (which joins the
\* calls submitted so far) and lands in the phase's outer except clause
LaunchFailed(p) ==
    /\ opc = PcOf(p, "abort")
    /\ JoinReady(p)
    /\ results' = ResultsAfterAbort(results, p)
    /\ opc' = PcOf(p, "next")
    /\ UNCHANGED <<orchInputs, call, outcome, widx, waitres, arg, record, instVars>>
    /\ UNCHANGED nonOrchVars

\* Phase 3: the orchestrator writes job_description onto the shared instance
\* (never restored) and calls relevant_yoe_extractor.extract(...) directly on
\* its own thread; extract applies the date override for the call.  A
\* missing registry entry raises KeyError, caught by the Phase-3 except.
P3Call ==
    /\ opc = "p3_call"
    /\ IF RelevantYoe \in registered
         THEN /\ job_description' = (IF jdParam # NoneV THEN jdParam ELSE job_description)
              /\ date_of_resume_submission' =
                   (IF dateParam # NoneV THEN dateParam ELSE date_of_resume_submission)
              /\ call' = [call EXCEPT ![RelevantYoe] = "running"]
              /\ arg' = [arg EXCEPT ![RelevantYoe] = results["education_stats"]]
              /\ opc' = "p3_wait"
         ELSE /\ opc' = "merge"
              /\ UNCHANGED <<call, arg, instVars>>
    /\ UNCHANGED <<orchInputs, outcome, widx, results, waitres, record>>
    /\ UNCHANGED nonOrchVars

\* the direct call comes back: its result is kept, an exception is logged
\* and leaves relevant_yoe_result = {}; extract's finally has restored the
\* date the instance had before the call
P3Return ==
    /\ opc = "p3_wait"
    /\ call[RelevantYoe] = "finished"
    /\ IF outcome[RelevantYoe] = Raised
         THEN /\ results' = ResultsAfterException(results, RelevantYoe)
              /\ waitres' = [waitres EXCEPT ![RelevantYoe] = "exception"]
         ELSE /\ results' = ResultsAfterReturn(results, RelevantYoe, outcome[RelevantYoe])
              /\ waitres' = [waitres EXCEPT ![RelevantYoe] = "ok"]
    /\ date_of_resume_submission' = NoneV
    /\ opc' = "merge"
    /\ UNCHANGED <<orchInputs, call, outcome, widx, arg, record, job_description>>
    /\ UNCHANGED nonOrchVars

\* the row built from the collected results: every field group of the
\* result is read with .get(field, default) from its extractor's result
BuildRecord(res) ==
    [filename |-> FileName,
     parsing_status |-> "success",
     fields |-> [e \in Extractors |-> res[e]],
     job_description_provided |-> (jdParam # NoneV),
     date_of_resume_submission |-> dateParam]

Merge ==
    /\ opc = "merge"
    /\ record' = BuildRecord(results)
    /\ opc' = "done"
    /\ UNCHANGED <<orchInputs, call, outcome, widx, results, waitres, arg, instVars>>
    /\ UNCHANGED nonOrchVars

\* the steps of the orchestrating thread
OrchStep ==
    \/ ReadFile
    \/ \E p \in {1, 2} : Submit(p)
    \/ \E p \in {1, 2} : Collect(p)
    \/ \E p \in {1, 2} : Timeout(p)
    \/ \E p \in {1, 2} : Join(p)
    \/ \E p \in {1, 2} : LaunchFailed(p)
    \/ P3Call
    \/ P3Return
    \/ Merge

OrchNext ==
    \/ OrchStep
    \/ \E e \in Extractors : Finish(e)

SpecOrch == OrchInit /\ [][OrchNext]_vars

(***************************************************************************)
(* Claims about the orchestrator.                                          *)
(***************************************************************************)
Started(e) == call[e] # "none"

\* C1: no Phase-2 extractor call is started while a launched Phase-1 call is
\* still running, and the Phase-3 call is started only when no launched
\* Phase-2 call is still running -- also after future.result timed out
C1_PhaseBarrier ==
    /\ (\E e \in Phase2 : Started(e)) => (\A f \in Phase1 : call[f] # "running")
    /\ Started(RelevantYoe) => (\A f \in Phase2 : call[f] # "running")

\* C1 witness: Phase 3 is running after a wait on a Phase-1 future and a
\* wait on a Phase-2 future both timed out
C1_Witness ==
    /\ call[RelevantYoe] = "running"
    /\ \E f \in Phase1 : waitres[f] = "timeout"
    /\ \E g \in Phase2 : waitres[g] = "timeout"

\* exactly extractor e failed in Phase 1, by raising inside its extract
\* call; every sibling's call returned its value to the orchestrator
OnlyFailureIsRaiseOf(e) ==
    /\ outcome[e] = Raised
    /\ \A s \in Phase1 \ {e} : outcome[s] = ValueOf(s)

C6_BoundedWait ==
    \A e \in Extractors :
        (call[e] = "running" /\ waitres[e] = "timeout") => ENABLED OrchStep

(***************************************************************************)
(* extract(text, additional_params) of RelevantYoEExtractorPlugin and of   *)
(* ExtendedAnalysisExtractorPlugin on one shared instance.  Every read and *)
(* write of an instance attribute is a step of its own, so that calls of   *)
(* several threads interleave as the interpreter lets them.                *)
(***************************************************************************)
CtxDone == {"returned", "raised"}

CtxInit ==
    /\ ListIdle
    /\ DateIdle
    /\ OrchOff
    /\ BatchIdle
    /\ LlmIdle
    /\ TokIdle
    /\ ProcIdle
    /\ OutIdle
    /\ YoeIdle
    /\ InstInit
    /\ plugin \in Plugins
    /\ frame = [c \in Callers |-> IdleFrame]

\* additional_params of thread c: each key absent (or None), or present
JDParams(c) == {NoneV, JDOf(c), Blank, NonStr}
DateParams(c) == {NoneV, DateOf(c)}

Goto(c, to) == frame' = [frame EXCEPT ![c].pc = to]

\* thread c enters extract; exclusive: no other call is in progress
CallExtract(c, exclusive) ==
    /\ frame[c].pc = "idle"
    /\ exclusive => \A o \in Callers \ {c} : frame[o].pc \in CtxDone \cup {"idle"}
    /\ \E j \in JDParams(c), d \in DateParams(c) :
         frame' = [frame EXCEPT ![c].pc = "save_jd", ![c].jd = j, ![c].date = d]
    /\ UNCHANGED <<instVars, plugin, nonCtxVars>>

\* original_job_description = self.job_description
SaveJD(c) ==
    /\ frame[c].pc = "save_jd"
    /\ frame' = [frame EXCEPT ![c].pc = "save_date",
                              ![c].original_job_description = job_description]
    /\ UNCHANGED <<instVars, plugin, nonCtxVars>>

\* original_date = self.date_of_resume_submission
SaveDate(c) ==
    /\ frame[c].pc = "save_date"
    /\ frame' = [frame EXCEPT ![c].pc = "set_jd",
                              ![c].original_date = date_of_resume_submission]
    /\ UNCHANGED <<instVars, plugin, nonCtxVars>>

\* if additional_params.get("job_description"): self.job_description = ...
SetJD(c) ==
    /\ frame[c].pc = "set_jd"
    /\ job_description' = IF frame[c].jd # NoneV THEN frame[c].jd ELSE job_description
    /\ Goto(c, "set_date")
    /\ UNCHANGED <<date_of_resume_submission, plugin, nonCtxVars>>

\* if additional_params.get("date_of_resume_submission"): self.date_... = ...
SetDate(c) ==
    /\ frame[c].pc = "set_date"
    /\ date_of_resume_submission' =
         IF frame[c].date # NoneV THEN frame[c].date ELSE date_of_resume_submission
    /\ Goto(c, IF plugin = ExtendedAnalysisExtractorPlugin THEN "check_jd" ELSE "prep_date")
    /\ UNCHANGED <<job_description, plugin, nonCtxVars>>

\* ExtendedAnalysisExtractorPlugin only, before the try statement:
\*   if not self.job_description or self.job_description.strip() == "":
\*       self.job_description = <general position>
\* .strip() on a value that is no str raises AttributeError, which leaves
\* extract at once: the finally clause belongs to the later try statement.
CheckJD(c) ==
    /\ frame[c].pc = "check_jd"
    /\ IF job_description = NonStr
         THEN /\ Goto(c, "raised")
              /\ UNCHANGED job_description
         ELSE /\ Goto(c, "prep_date")
              /\ job_description' = IF job_description = Blank THEN DefaultJD
                                    ELSE job_description
    /\ UNCHANGED <<date_of_resume_submission, plugin, nonCtxVars>>

\* prepare_input_data: submission_date = self.date_of_resume_submission or now
PrepDate(c) ==
    /\ frame[c].pc = "prep_date"
    /\ frame' = [frame EXCEPT ![c].pc = "prep_jd",
                   ![c].in_date = IF date_of_resume_submission = NoneV THEN Today
                                  ELSE date_of_resume_submission]
    /\ UNCHANGED <<instVars, plugin, nonCtxVars>>

\* prepare_input_data: "job_description": self.job_description
PrepJD(c) ==
    /\ frame[c].pc = "prep_jd"
    /\ frame' = [frame EXCEPT ![c].pc = "try", ![c].in_jd = job_description]
    /\ UNCHANGED <<instVars, plugin, nonCtxVars>>

\* the try block: extract_with_llm and process_output return or raise
TryBlock(c) ==
    /\ frame[c].pc = "try"
    /\ \E r \in {"return", "raise"} :
         frame' = [frame EXCEPT ![c].pc = "restore_jd", ![c].res = r]
    /\ UNCHANGED <<instVars, plugin, nonCtxVars>>

\* finally: self.job_description = original_job_description
RestoreJD(c) ==
    /\ frame[c].pc = "restore_jd"
    /\ job_description' = frame[c].original_job_description
    /\ Goto(c, "restore_date")
    /\ UNCHANGED <<date_of_resume_submission, plugin, nonCtxVars>>

\* finally: self.date_of_resume_submission = original_date; then the
\* pending return or exception leaves extract
RestoreDate(c) ==
    /\ frame[c].pc = "restore_date"
    /\ date_of_resume_submission' = frame[c].original_date
    /\ Goto(c, IF frame[c].res = "return" THEN "returned" ELSE "raised")
    /\ UNCHANGED <<job_description, plugin, nonCtxVars>>

ExtractStep(c) ==
    \/ SaveJD(c) \/ SaveDate(c) \/ SetJD(c) \/ SetDate(c) \/ CheckJD(c)
    \/ PrepDate(c) \/ PrepJD(c) \/ TryBlock(c) \/ RestoreJD(c) \/ RestoreDate(c)

\* sequential processing: one extract call at a time
CtxSeqNext == \E c \in Callers : CallExtract(c, TRUE) \/ ExtractStep(c)

\* parallel processing: the calls of the worker threads interleave
CtxNext == \E c \in Callers : CallExtract(c, FALSE) \/ ExtractStep(c)

SpecCtxSeq == CtxInit /\ [][CtxSeqNext]_vars

SpecCtx == CtxInit /\ [][CtxNext]_vars

(***************************************************************************)
(* Claims about the context override.                                      *)
(***************************************************************************)
Overrides(c) == frame[c].jd # NoneV \/ frame[c].date # NoneV

Completes(c) == frame[c].pc \notin CtxDone /\ frame'[c].pc \in CtxDone

\* C4 (as claimed): a call of extract whose additional_params override
\* job_description and/or date_of_resume_submission leaves, when it completes
\* by return or by exception, both attributes as they were immediately before
\* the call (calls not overlapping).
C4_RestoredOnCompletion ==
    [][\A c \in Callers : (Completes(c) /\ Overrides(c)) =>
          /\ job_description' = frame[c].original_job_description
          /\ date_of_resume_submission' = frame[c].original_date]_vars

\* C5 (as claimed): with extract calls of several threads sharing one
\* instance, once every call has completed (here: returned normally) the
\* instance holds the job_description and date_of_resume_submission it had
\* before the first call.
C5_NoOverrideRemains ==
    (\A c \in Callers : frame[c].pc = "returned") =>
        /\ job_description = DefaultJD
        /\ date_of_resume_submission = NoneV

(***************************************************************************)
(* parse_many_resumes: one call of parse_single_resume per path, in the    *)
(* calling thread (parallel = False) or on a ThreadPoolExecutor whose      *)
(* futures are consumed with as_completed (parallel = True).               *)
(***************************************************************************)
Paths == 1..npaths

\* a row of the returned DataFrame, reduced to filename and parsing_status
StatusRow(d, st) == [filename |-> d, parsing_status |-> st]

Returned(row) == [raised |-> FALSE, row |-> row]

\* parse_single_resume without its except clause: the exception propagates
ParseSingleNoHandler(d) ==
    IF d \in corrupt
      THEN [raised |-> TRUE, row |-> StatusRow(d, "none")]
      ELSE Returned(StatusRow(d, "success"))

\* parse_single_resume: the whole body is one try statement whose handler
\* returns the "failed" row, so the call always returns a row
ParseSingleResume(d) ==
    IF d \in corrupt
      THEN Returned(StatusRow(d, "failed"))
      ELSE Returned(StatusRow(d, "success"))

NoFuture == [state |-> "queued", out |-> Returned(StatusRow(0, "none"))]

BatchInit ==
    /\ ListIdle
    /\ DateIdle
    /\ OrchOff
    /\ InstInit
    /\ CtxIdle
    /\ LlmIdle
    /\ TokIdle
    /\ ProcIdle
    /\ OutIdle
    /\ YoeIdle
    /\ bpc = "start"
    /\ npaths \in 0..MaxDocs
    /\ corrupt \in SUBSET Paths
    /\ parallel \in BOOLEAN
    /\ max_workers \in 1..MaxWorkers
    /\ future = <<>>
    /\ bidx = 0
    /\ data_list = <<>>

\* the dict comprehension submits one call per path; the main thread does
\* nothing else until every call is submitted
SubmitAll ==
    /\ bpc = "start"
    /\ parallel
    /\ future' = [d \in Paths |-> NoFuture]
    /\ bpc' = "collect"
    /\ UNCHANGED <<npaths, corrupt, parallel, max_workers, bidx, data_list,
                   nonBatchVars>>

Queued == {d \in DOMAIN future : future[d].state = "queued"}
Running == {d \in DOMAIN future : future[d].state = "running"}

\* a free worker thread takes the oldest item of the executor's work queue
WorkerStart(d) ==
    /\ d \in Queued
    /\ \A o \in Queued : d <= o
    /\ Cardinality(Running) < max_workers
    /\ future' = [future EXCEPT ![d].state = "running"]
    /\ UNCHANGED <<bpc, npaths, corrupt, parallel, max_workers, bidx,
                   data_list, nonBatchVars>>

\* the worker's call of parse_single_resume ends and sets the future
WorkerFinish(d) ==
    /\ d \in Running
    /\ future' = [future EXCEPT ![d] = [state |-> "done",
                                        out |-> ParseSingleResume(d)]]
    /\ UNCHANGED <<bpc, npaths, corrupt, parallel, max_workers, bidx,
                   data_list, nonBatchVars>>

\* one iteration of `for future in as_completed(futures)`: append the result,
\* or a "failed" row for futures[future] if future.result() raises
CollectOne(d) ==
    /\ bpc = "collect"
    /\ d \in DOMAIN future
    /\ future[d].state = "done"
    /\ data_list' = Append(data_list,
                           IF future[d].out.raised THEN StatusRow(d, "failed")
                           ELSE future[d].out.row)
    /\ future' = [future EXCEPT ![d].state = "collected"]
    /\ UNCHANGED <<bpc, npaths, corrupt, parallel, max_workers, bidx,
                   nonBatchVars>>

\* as_completed is exhausted, the with statement joins the (idle) workers,
\* and pd.DataFrame(data_list) is returned
ParallelReturn ==
    /\ bpc = "collect"
    /\ \A d \in DOMAIN future : future[d].state = "collected"
    /\ bpc' = "returned"
    /\ UNCHANGED <<npaths, corrupt, parallel, max_workers, future, bidx,
                   data_list, nonBatchVars>>

\* one iteration of `for path in resume_iterator`; an exception that
\* parse_single_resume let through would leave parse_many_resumes
SequentialStep ==
    /\ bpc = "start"
    /\ ~parallel
    /\ bidx < npaths
    /\ LET r == ParseSingleResume(bidx + 1) IN
         IF r.raised
           THEN /\ bpc' = "raised"
                /\ UNCHANGED <<bidx, data_list>>
           ELSE /\ data_list' = Append(data_list, r.row)
                /\ bidx' = bidx + 1
                /\ bpc' = bpc
    /\ UNCHANGED <<npaths, corrupt, parallel, max_workers, future, nonBatchVars>>

SequentialReturn ==
    /\ bpc = "start"
    /\ ~parallel
    /\ bidx = npaths
    /\ bpc' = "returned"
    /\ UNCHANGED <<npaths, corrupt, parallel, max_workers, future, bidx,
                   data_list, nonBatchVars>>

BatchNext ==
    \/ SubmitAll
    \/ \E d \in 1..MaxDocs : WorkerStart(d) \/ WorkerFinish(d) \/ CollectOne(d)
    \/ ParallelReturn
    \/ SequentialStep
    \/ SequentialReturn

SpecBatch == BatchInit /\ [][BatchNext]_vars

\* C3: parse_many_resumes, sequential or parallel, always gets to return, and
\* what it returns has exactly one row per input path: "failed" for a path
\* whose processing raised, "success" for every other path.
C3_OneRecordPerPath ==
    /\ bpc = "returned" =>
         /\ Len(data_list) = npaths
         /\ \A d \in Paths : \E i \in 1..Len(data_list) :
              data_list[i] = StatusRow(d, IF d \in corrupt THEN "failed" ELSE "success")
    /\ bpc # "returned" => ENABLED BatchNext

C3_Witness ==
    /\ bpc = "returned"
    /\ parallel
    /\ npaths >= 2
    /\ data_list[1] = StatusRow(npaths, "failed")
    /\ \E i \in 1..Len(data_list) : data_list[i].parsing_status = "success"

(***************************************************************************)
(* extract_with_llm (the module-level function of src/llm_service.py and   *)
(* the method of cvinsight.core.llm_service.LLMService) and the extract    *)
(* method that calls it.  Texts are modelled by their lengths.             *)
(***************************************************************************)
\* the extractors whose extract is modelled, by the name they tag usage with
LegacyExtractors == {"SkillsExtractor"}
PluginExtractors == {"experience_extractor", "education_stats_extractor"}
ExtractorNames == LegacyExtractors \cup PluginExtractors

Stages == {"chain", "invoke", "parse"}

\* what chain.invoke hands back: a dict, an instance of the pydantic model,
\* or any other parsed JSON value (a list, a number)
ResultKinds == {"dict", "model", "other"}

\* callback_handler.token_usage after the call: nothing found, or the
\* provider's counts
NotReported == InitUsage
Reported ==
    [total_tokens |-> 3, prompt_tokens |-> 2, completion_tokens |-> 1,
     source |-> "usage_metadata", is_estimated |-> FALSE, extractor |-> "unknown"]

LlmInputs ==
    [cls : ExtractorNames,
     fault : Stages \cup {"none"},
     fields : {{"text"}, {"text", "format_instructions"}},
     literal : 0..MaxLen,
     text : 0..MaxLen,
     format_instructions : 0..MaxLen,
     kind : ResultKinds,
     result_len : 1..MaxResultLen,
     reported : {NotReported, Reported}]

LlmInit ==
    /\ ListIdle
    /\ DateIdle
    /\ OrchOff
    /\ InstInit
    /\ CtxIdle
    /\ BatchIdle
    /\ TokIdle
    /\ ProcIdle
    /\ OutIdle
    /\ YoeIdle
    /\ lpc = "start"
    /\ llmIn \in LlmInputs
    /\ result = Unset
    /\ token_usage = InitUsage
    /\ extracted = Unset

RECURSIVE SumLen(_, _)
SumLen(names, kw) ==
    IF names = {} THEN 0
    ELSE LET n == CHOOSE x \in names : TRUE IN kw[n] + SumLen(names \ {n}, kw)

\* str.format(**kw): every replacement field must be a key of kw (KeyError
\* otherwise); keys without a field are ignored
StrFormat(kw) ==
    IF llmIn.fields \subseteq DOMAIN kw
      THEN [raised |-> FALSE, len |-> llmIn.literal + SumLen(llmIn.fields, kw)]
      ELSE [raised |-> TRUE, len |-> 0]

\* input_data as prepare_input_data builds it
InputData == [n \in {"text"} |-> llmIn.text]

\* PromptTemplate(..., partial_variables={"format_instructions": ...})
PartialVariables == [n \in {"format_instructions"} |-> llmIn.format_instructions]

\* the text whose length the estimate is taken from:
\*   src/llm_service.py           prompt.format(**input_data), prompt being the
\*                                PromptTemplate with its partial variables
\*   cvinsight/core/llm_service.py prompt_template.format(**input_data),
\*                                prompt_template being the template str
PromptText ==
    IF llmIn.cls \in LegacyExtractors
      THEN StrFormat(InputData @@ PartialVariables)
      ELSE StrFormat(InputData)

ErrorUsage ==
    [total_tokens |-> 0, prompt_tokens |-> 0, completion_tokens |-> 0,
     source |-> "error", is_estimated |-> FALSE, extractor |-> "unknown"]

\* a handler that lets the exception through
ExceptReraise(stage) ==
    [raised |-> TRUE, result |-> result, usage |-> token_usage]

\* except Exception as e: return {}, empty_token_usage
ExceptHandler(stage) ==
    [raised |-> FALSE, result |-> EmptyResult, usage |-> ErrorUsage]

\* an exception raised at `stage` inside the try block
Fail(stage) ==
    LET h == ExceptHandler(stage) IN
      /\ lpc' = IF h.raised THEN "llm_raised" ELSE "llm_returned"
      /\ result' = h.result
      /\ token_usage' = h.usage

\* JsonOutputParser / PromptTemplate / get_llm and the `|` composition
BuildChain ==
    /\ lpc = "start"
    /\ IF llmIn.fault = "chain"
         THEN Fail("chain")
         ELSE lpc' = "invoke" /\ UNCHANGED <<result, token_usage>>
    /\ UNCHANGED <<llmIn, extracted, nonLlmVars>>

\* chain.invoke: the request to the model
InvokeModel ==
    /\ lpc = "invoke"
    /\ IF llmIn.fault = "invoke"
         THEN Fail("invoke")
         ELSE lpc' = "parse" /\ UNCHANGED <<result, token_usage>>
    /\ UNCHANGED <<llmIn, extracted, nonLlmVars>>

ParsedDict == <<"dict">>
ModelObject == <<"model">>
OtherValue == <<"other">>

Raw(kind) ==
    CASE kind = "dict" -> ParsedDict
      [] kind = "model" -> ModelObject
      [] kind = "other" -> OtherValue

\* chain.invoke: the parser; then token_usage = callback_handler.token_usage
ParseOutput ==
    /\ lpc = "parse"
    /\ IF llmIn.fault = "parse"
         THEN Fail("parse")
         ELSE /\ lpc' = "account"
              /\ result' = Raw(llmIn.kind)
              /\ token_usage' = llmIn.reported
    /\ UNCHANGED <<llmIn, extracted, nonLlmVars>>

Estimate(prompt_len, res_len) ==
    [total_tokens |-> (prompt_len \div 4) + (res_len \div 4),
     prompt_tokens |-> prompt_len \div 4,
     completion_tokens |-> res_len \div 4,
     source |-> "estimation", is_estimated |-> TRUE, extractor |-> "unknown"]

\* if token_usage["total_tokens"] == 0: estimate from the text lengths
Account ==
    /\ lpc = "account"
    /\ IF token_usage.total_tokens = 0
         THEN IF PromptText.raised
                THEN Fail("account")
                ELSE /\ token_usage' = Estimate(PromptText.len, llmIn.result_len)
                     /\ lpc' = "convert"
                     /\ UNCHANGED result
         ELSE lpc' = "convert" /\ UNCHANGED <<result, token_usage>>
    /\ UNCHANGED <<llmIn, extracted, nonLlmVars>>

\* the returns at the end of the try block.
\*   src/llm_service.py: a dict or model instance is returned as it is; for
\*     anything else pydantic_model() is built, which raises for Skills
\*     (its field is required)
\*   core: model_dump() of a model instance, a dict as it is, {} for a value
\*     without __dict__
Convert ==
    /\ lpc = "convert"
    /\ IF llmIn.cls \in LegacyExtractors
         THEN IF result = OtherValue
                THEN Fail("convert")
                ELSE lpc' = "llm_returned" /\ UNCHANGED <<result, token_usage>>
         ELSE /\ lpc' = "llm_returned"
              /\ result' = IF result = OtherValue THEN EmptyResult ELSE ParsedDict
              /\ UNCHANGED token_usage
    /\ UNCHANGED <<llmIn, extracted, nonLlmVars>>

\* what process_output makes of an empty dict: {"skills": []},
\* {"work_experiences": []}, and the dict itself for education_stats
Defaults(cls) ==
    IF cls = "education_stats_extractor" THEN EmptyResult ELSE <<"defaults", cls>>

\* a process_output that indexes the dict: KeyError on {}
ProcessOutputStrict(cls, r) ==
    IF r = EmptyResult
      THEN [raised |-> TRUE, value |-> Unset]
      ELSE [raised |-> FALSE, value |-> <<"processed", cls>>]

\* process_output / process_list_output: .get and getattr with defaults
ProcessOutput(cls, r) ==
    IF r = EmptyResult
      THEN [raised |-> FALSE, value |-> Defaults(cls)]
      ELSE [raised |-> FALSE, value |-> <<"processed", cls>>]

\* extract after extract_with_llm returned: tag the usage, process the output
ExtractReturn ==
    /\ lpc = "llm_returned"
    /\ token_usage' = [token_usage EXCEPT !.extractor = llmIn.cls]
    /\ LET p == ProcessOutput(llmIn.cls, result) IN
         IF p.raised
           THEN lpc' = "raised" /\ UNCHANGED extracted
           ELSE /\ lpc' = "returned"
                /\ extracted' = [value |-> p.value, usage |-> token_usage']
    /\ UNCHANGED <<llmIn, result, nonLlmVars>>

LlmNext ==
    \/ BuildChain
    \/ InvokeModel
    \/ ParseOutput
    \/ Account
    \/ Convert
    \/ ExtractReturn

SpecLlm == LlmInit /\ [][LlmNext]_vars

(***************************************************************************)
(* Claims about extract_with_llm and extract.                              *)
(***************************************************************************)
LlmEnded == lpc \in {"llm_returned", "llm_raised", "returned", "raised"}

ZeroCounts(u) ==
    u.total_tokens = 0 /\ u.prompt_tokens = 0 /\ u.completion_tokens = 0

\* C7: extract_with_llm never lets an exception through to its caller; when
\* chain construction, the model invocation or the output parsing raised, it
\* has returned {} with a usage of three zero counts and source "error".
C7_NeverPropagates ==
    /\ lpc # "llm_raised"
    /\ (LlmEnded /\ llmIn.fault \in Stages) =>
         /\ result = EmptyResult
         /\ ZeroCounts(token_usage)
         /\ token_usage.source = "error"

C7_Witness ==
    /\ lpc = "llm_returned"
    /\ llmIn.fault = "parse"
    /\ result = EmptyResult
    /\ token_usage.source = "error"

\* C8: when extract_with_llm reported failure ({} and a usage with source
\* "error"), extract has returned normally: a defaulted result and a usage
\* with zero counts, source "error" and the extractor's name.
C8_ExtractReturnsDefaults ==
    (lpc \in {"returned", "raised"} /\ result = EmptyResult
       /\ token_usage.source = "error") =>
        /\ lpc = "returned"
        /\ extracted.value = Defaults(llmIn.cls)
        /\ ZeroCounts(extracted.usage)
        /\ extracted.usage.source = "error"
        /\ extracted.usage.extractor = llmIn.cls

C8_Witness ==
    /\ lpc = "returned"
    /\ llmIn.fault = "invoke"
    /\ llmIn.cls = "experience_extractor"
    /\ extracted.usage.source = "error"

\* the prompt as the chain renders it: the template text with every field
\* replaced, format_instructions included
RenderedLen == llmIn.literal + SumLen(llmIn.fields, InputData @@ PartialVariables)

\* C9 (as claimed): when model call and parse succeeded and the provider
\* reported a total of zero, extract_with_llm returns a usage with source
\* "estimation", marked estimated, prompt_tokens = floor(len(rendered
\* prompt)/4), completion_tokens = floor(len(str(result))/4) and
\* total_tokens their sum.
C9_EstimationFallback ==
    (lpc = "llm_returned" /\ llmIn.fault = "none"
       /\ llmIn.reported.total_tokens = 0) =>
        /\ token_usage.source = "estimation"
        /\ token_usage.is_estimated
        /\ token_usage.prompt_tokens = RenderedLen \div 4
        /\ token_usage.completion_tokens = llmIn.result_len \div 4
        /\ token_usage.total_tokens =
             token_usage.prompt_tokens + token_usage.completion_tokens

(***************************************************************************)
(* ResumeProcessor.process_resume: the loop that folds the five extractor  *)
(* usages into total_token_usage.                                          *)
(***************************************************************************)
\* the extractors process_resume submits, in the order of the loop's list;
\* each tags its usage with its class name
ProcessorExtractors ==
    <<"ProfileExtractor", "SkillsExtractor", "EducationExtractor",
      "ExperienceExtractor", "YoeExtractor">>

\* the usages extract can return, before the extractor tags them: the error
\* usage, the provider's counts, or an estimate
UsageShapes ==
    {ErrorUsage}
    \cup {[total_tokens |-> t, prompt_tokens |-> p, completion_tokens |-> t - p,
           source |-> "usage_metadata", is_estimated |-> FALSE,
           extractor |-> "unknown"] : t \in 1..MaxTokens, p \in 0..MaxTokens}
    \cup {[total_tokens |-> t, prompt_tokens |-> p, completion_tokens |-> t - p,
           source |-> "estimation", is_estimated |-> TRUE,
           extractor |-> "unknown"] : t \in 0..MaxTokens, p \in 0..MaxTokens}

Usages == {u \in UsageShapes : u.completion_tokens >= 0}

\* token_usage["extractor"] = self.__class__.__name__
Tagged(u, name) == [u EXCEPT !.extractor = name]

TokInit ==
    /\ ListIdle
    /\ DateIdle
    /\ OrchOff
    /\ InstInit
    /\ CtxIdle
    /\ BatchIdle
    /\ LlmIdle
    /\ ProcIdle
    /\ OutIdle
    /\ YoeIdle
    /\ tpc = "loop"
    /\ \E s \in [1..Len(ProcessorExtractors) -> Usages] :
         usages = [i \in 1..Len(ProcessorExtractors) |->
                     Tagged(s[i], ProcessorExtractors[i])]
    /\ tidx = 1
    /\ total_token_usage = InitTotal
    /\ is_using_estimation = FALSE

Entry(u) ==
    [total_tokens |-> u.total_tokens, prompt_tokens |-> u.prompt_tokens,
     completion_tokens |-> u.completion_tokens, source |-> u.source]

\* a breakdown keyed by where the counts came from
AddEntryBySource(by, u) == (u.source :> Entry(u)) @@ by

\* total_token_usage["by_extractor"][extractor_name] = {...}
AddEntry(by, u) == (u.extractor :> Entry(u)) @@ by

\* one iteration of `for extractor_usage in [...]`
Aggregate ==
    /\ tpc = "loop"
    /\ tidx <= Len(usages)
    /\ LET u == usages[tidx] IN
         /\ is_using_estimation' = (is_using_estimation \/ u.is_estimated)
         /\ total_token_usage' =
              [total_token_usage EXCEPT
                 !.total_tokens = @ + u.total_tokens,
                 !.prompt_tokens = @ + u.prompt_tokens,
                 !.completion_tokens = @ + u.completion_tokens,
                 !.by_extractor = AddEntry(@, u)]
    /\ tidx' = tidx + 1
    /\ UNCHANGED <<tpc, usages, nonTokVars>>

\* the end of the loop without the marking
MarkNothing ==
    /\ tpc = "loop"
    /\ tidx > Len(usages)
    /\ tpc' = "done"
    /\ UNCHANGED <<total_token_usage, usages, tidx, is_using_estimation, nonTokVars>>

\* if is_using_estimation: mark the consolidated usage as estimated
MarkEstimated ==
    /\ tpc = "loop"
    /\ tidx > Len(usages)
    /\ total_token_usage' =
         IF is_using_estimation
           THEN [total_token_usage EXCEPT !.is_estimated = TRUE,
                                          !.source = "estimation"]
           ELSE total_token_usage
    /\ tpc' = "done"
    /\ UNCHANGED <<usages, tidx, is_using_estimation, nonTokVars>>

TokNext == Aggregate \/ MarkEstimated

SpecTok == TokInit /\ [][TokNext]_vars

RECURSIVE SumOf(_, _)
SumOf(us, key) ==
    IF us = <<>> THEN 0 ELSE Head(us)[key] + SumOf(Tail(us), key)

\* C10: the consolidated total_tokens, prompt_tokens and completion_tokens are
\* the sums of the counts of all invoked extractors' usages (an error usage
\* adds 0), and by_extractor has exactly one entry per invoked extractor.
C10_TokenAggregation ==
    tpc = "done" =>
      /\ total_token_usage.total_tokens = SumOf(usages, "total_tokens")
      /\ total_token_usage.prompt_tokens = SumOf(usages, "prompt_tokens")
      /\ total_token_usage.completion_tokens = SumOf(usages, "completion_tokens")
      /\ Cardinality(DOMAIN total_token_usage.by_extractor) = Len(usages)
      /\ \A i \in 1..Len(usages) :
           /\ usages[i].extractor \in DOMAIN total_token_usage.by_extractor
           /\ total_token_usage.by_extractor[usages[i].extractor] = Entry(usages[i])
           /\ usages[i].source = "error" => usages[i].total_tokens = 0

C10_Witness ==
    /\ tpc = "done"
    /\ \E i \in 1..Len(usages) : usages[i].source = "error"
    /\ \E i \in 1..Len(usages) : usages[i].source = "estimation"
    /\ total_token_usage.total_tokens >= 2

\* C11: the consolidated usage is marked estimated (is_estimated true, source
\* "estimation") when at least one contributing usage was estimated, and keeps
\* is_estimated false and source "multiple" when none was.
C11_EstimatedMark ==
    tpc = "done" =>
      IF \E i \in 1..Len(usages) : usages[i].is_estimated
        THEN /\ total_token_usage.is_estimated
             /\ total_token_usage.source = "estimation"
        ELSE /\ ~total_token_usage.is_estimated
             /\ total_token_usage.source = "multiple"

C11_Witness ==
    /\ tpc = "done"
    /\ usages[1].is_estimated
    /\ \A i \in 2..Len(usages) : ~usages[i].is_estimated
    /\ total_token_usage.source = "estimation"

\* the per-extractor token usage a returned row carries: the row's
\* token_usage entry if it has one
UsageCarried(row) ==
    IF "token_usage" \in DOMAIN row THEN row.token_usage ELSE <<>>

\* C12 (as claimed): the record returned for a document carries the token
\* usage of every extractor invoked for it, and an extractor whose call
\* failed appears in it with a usage of source "error".
C12_RecordCarriesUsage ==
    (opc = "done" /\ record.parsing_status = "success") =>
        \A e \in Extractors : Started(e) =>
            /\ e \in DOMAIN UsageCarried(record)
            /\ waitres[e] \in {"exception", "timeout"} =>
                 UsageCarried(record)[e].source = "error"

StageOf(pc, rec) ==
    CASE pc = "start" -> "Validating"
      [] pc \in {"p1_submit", "p1_wait", "p1_join", "p1_abort"} -> "ExtractingPhase1"
      [] pc \in {"p2_submit", "p2_wait", "p2_join", "p2_abort"} -> "ExtractingPhase2"
      [] pc \in {"p3_call", "p3_wait"} -> "ExtractingPhase3"
      [] pc = "merge" -> "Merging"
      [] pc = "done" -> (IF rec.parsing_status = "success" THEN "Done" ELSE "Failed")

StageOrder ==
    <<"Validating", "ExtractingPhase1", "ExtractingPhase2", "ExtractingPhase3",
      "Merging", "Done">>

\* every thread that can take a step eventually takes one, and a running
\* extract call eventually returns or raises
SpecOrchFair == SpecOrch /\ WF_vars(OrchNext)

ALLOWED_FILE_EXTENSIONS == {".pdf", ".docx"}

\* ext.lower()
LowerExt(ext) == IF ext = ".PDF" THEN ".pdf" ELSE ext

\* what can be at a path: present or not, its extension, its size in MB,
\* and whether PyPDF2.PdfReader accepts its content
Files ==
    [exists : BOOLEAN,
     ext : {".pdf", ".PDF", ".docx", ".txt"},
     size_mb : {MAX_PDF_SIZE_MB, MAX_PDF_SIZE_MB + 1},
     readable : BOOLEAN]

\* get_resume_files lists only names with an allowed extension; a direct
\* call of process_resume can be given any path
FilesFor(mode) ==
    {f \in Files : mode = "all" => LowerExt(f.ext) \in ALLOWED_FILE_EXTENSIONS}

\* validate_file without the size check
validate_file_any_size(f) ==
    IF ~f.exists THEN [is_valid |-> FALSE, message |-> "File not found"]
    ELSE IF LowerExt(f.ext) \notin ALLOWED_FILE_EXTENSIONS
      THEN [is_valid |-> FALSE, message |-> "Invalid file type"]
    ELSE IF ~f.readable
      THEN [is_valid |-> FALSE, message |-> "Invalid PDF file"]
    ELSE [is_valid |-> TRUE, message |-> "File is valid"]

\* validate_file: existence, extension, size, then a trial PdfReader
validate_file(f) ==
    IF ~f.exists THEN [is_valid |-> FALSE, message |-> "File not found"]
    ELSE IF LowerExt(f.ext) \notin ALLOWED_FILE_EXTENSIONS
      THEN [is_valid |-> FALSE, message |-> "Invalid file type"]
    ELSE IF f.size_mb > MAX_PDF_SIZE_MB
      THEN [is_valid |-> FALSE, message |-> "File too large"]
    ELSE IF ~f.readable
      THEN [is_valid |-> FALSE, message |-> "Invalid PDF file"]
    ELSE [is_valid |-> TRUE, message |-> "File is valid"]

NoneReturned == [kind |-> "None"]

ResumeOf(i) == [kind |-> "Resume", file_name |-> i]

\* process_resume without its except clause
DocumentNoHandler(msg) == [raised |-> TRUE, value |-> NoReturn, log |-> ""]

\* process_resume: except Exception: logging.exception(...); return None
DocumentHandler(msg) == [raised |-> FALSE, value |-> NoneReturned, log |-> msg]

\* an exception inside the try block of process_resume
DocumentException(msg) ==
    LET h == DocumentHandler(msg) IN
      /\ ppc' = IF h.raised THEN "raised" ELSE "returned"
      /\ presult' = h.value
      /\ plog' = h.log

ProcInit ==
    /\ ListIdle
    /\ DateIdle
    /\ OrchOff
    /\ InstInit
    /\ CtxIdle
    /\ BatchIdle
    /\ LlmIdle
    /\ TokIdle
    /\ OutIdle
    /\ YoeIdle
    /\ ppc = "next"
    /\ pmode \in {"single", "all"}
    /\ nfiles \in 0..MaxFiles
    /\ pmode = "single" => nfiles = 1
    /\ pidx = 0
    /\ pfile = NoFile
    /\ pcall = [e \in ProcExtractors |-> "none"]
    /\ presult = NoReturn
    /\ plog = ""
    /\ processed_count = 0
    /\ error_count = 0

\* process_resume is entered for the next path
PStart ==
    /\ ppc = "next"
    /\ pidx < nfiles
    /\ pidx' = pidx + 1
    /\ pfile' \in FilesFor(pmode)
    /\ pcall' = [e \in ProcExtractors |-> "none"]
    /\ presult' = NoReturn
    /\ plog' = ""
    /\ ppc' = "validate"
    /\ UNCHANGED <<pmode, nfiles, processed_count, error_count, nonProcVars>>

\* is_valid, message = validate_file(path); if not is_valid: log, return None
PValidate ==
    /\ ppc = "validate"
    /\ LET v == validate_file(pfile) IN
         IF v.is_valid
           THEN ppc' = "read" /\ UNCHANGED <<presult, plog>>
           ELSE /\ ppc' = "returned"
                /\ presult' = NoneReturned
                /\ plog' = v.message
    /\ UNCHANGED <<pmode, nfiles, pidx, pfile, pcall, processed_count,
                   error_count, nonProcVars>>

\* extracted_text = read_file(path), which may raise IOError; then the five
\* extract calls are submitted
PRead ==
    /\ ppc = "read"
    /\ \/ /\ ppc' = "extract"
          /\ pcall' = [e \in ProcExtractors |-> "running"]
          /\ UNCHANGED <<presult, plog>>
       \/ /\ DocumentException("Error reading PDF file")
          /\ UNCHANGED pcall
    /\ UNCHANGED <<pmode, nfiles, pidx, pfile, processed_count, error_count,
                   nonProcVars>>

\* an extract call returns or raises
PFinish(e) ==
    /\ ppc = "extract"
    /\ pcall[e] = "running"
    /\ \E o \in {"returned", "raised"} : pcall' = [pcall EXCEPT ![e] = o]
    /\ UNCHANGED <<ppc, pmode, nfiles, pidx, pfile, presult, plog,
                   processed_count, error_count, nonProcVars>>

\* the five future.result() calls and the exit of the with statement: all
\* calls have ended; the first exception, if any, is re-raised; otherwise the
\* usages are aggregated and the Resume is built and returned
PGather ==
    /\ ppc = "extract"
    /\ \A e \in ProcExtractors : pcall[e] # "running"
    /\ IF \E e \in ProcExtractors : pcall[e] = "raised"
         THEN DocumentException("Error processing resume")
         ELSE /\ ppc' = "returned"
              /\ presult' = ResumeOf(pidx)
              /\ UNCHANGED plog
    /\ UNCHANGED <<pmode, nfiles, pidx, pfile, pcall, processed_count,
                   error_count, nonProcVars>>

\* the body of `for pdf_file in pdf_files` after process_resume returned
PCount ==
    /\ ppc = "returned"
    /\ pmode = "all"
    /\ IF presult.kind = "Resume"
         THEN \/ processed_count' = processed_count + 1 /\ UNCHANGED error_count
              \/ error_count' = error_count + 1 /\ UNCHANGED processed_count
         ELSE error_count' = error_count + 1 /\ UNCHANGED processed_count
    /\ ppc' = "next"
    /\ UNCHANGED <<pmode, nfiles, pidx, pfile, pcall, presult, plog, nonProcVars>>

\* the loop is exhausted (or no file was found): return the two counts
PAllDone ==
    /\ ppc = "next"
    /\ pmode = "all"
    /\ pidx = nfiles
    /\ ppc' = "all_done"
    /\ UNCHANGED <<pmode, nfiles, pidx, pfile, pcall, presult, plog,
                   processed_count, error_count, nonProcVars>>

ProcNext ==
    \/ PStart
    \/ PValidate
    \/ PRead
    \/ \E e \in ProcExtractors : PFinish(e)
    \/ PGather
    \/ PCount
    \/ PAllDone

SpecProc == ProcInit /\ [][ProcNext]_vars

(***************************************************************************)
(* Claims about ResumeProcessor.                                           *)
(***************************************************************************)
\* the four ways a file fails validation
Missing(f) == ~f.exists
Disallowed(f) == f.ext \notin {".pdf", ".PDF", ".docx"}
Oversized(f) == f.size_mb > MAX_PDF_SIZE_MB
Corrupt(f) == ~f.readable

Invalid(f) == Missing(f) \/ Disallowed(f) \/ Oversized(f) \/ Corrupt(f)

\* C13: once validation of a missing, disallowed, oversized or corrupt file
\* is over, process_resume has ended in failure (it returned None, which the
\* loop of process_all_resumes counts as an error) with the validation
\* message logged, and no extract call was made for the document
C13_ValidationFatal ==
    (pidx > 0 /\ ppc # "validate" /\ Invalid(pfile)) =>
        /\ ppc \in {"returned", "next", "all_done"}
        /\ presult = NoneReturned
        /\ plog \in {"File not found", "Invalid file type", "File too large",
                     "Invalid PDF file"}
        /\ \A e \in ProcExtractors : pcall[e] = "none"

\* C13 witness: an existing, readable .pdf of more than MAX_PDF_SIZE_MB was
\* rejected
C13_Witness ==
    /\ ppc = "returned"
    /\ ~Missing(pfile) /\ ~Disallowed(pfile) /\ ~Corrupt(pfile)
    /\ Oversized(pfile)
    /\ plog = "File too large"
    /\ presult = NoneReturned

\* C15: no exception leaves process_resume; when an extract call raised,
\* process_resume returns None; and when process_all_resumes returns,
\* processed_count + error_count is the number of files found
C15_DocumentLevelCatch ==
    /\ ppc # "raised"
    /\ (ppc = "returned" /\ \E e \in ProcExtractors : pcall[e] = "raised") =>
          presult = NoneReturned
    /\ ppc = "next" => processed_count + error_count = pidx
    /\ ppc = "all_done" => processed_count + error_count = nfiles

\* C15 witness: an extract call of the first file raised, the file was
\* counted as an error, and the loop is about to take the next file
C15_Witness ==
    /\ ppc = "next"
    /\ pmode = "all"
    /\ pidx < nfiles
    /\ \E e \in ProcExtractors : pcall[e] = "raised"
    /\ error_count = 1

(***************************************************************************)
(* process_output of the extractors, field by field.                       *)
(***************************************************************************)
OutExtractors ==
    {"ProfileExtractor", "SkillsExtractor", "ExperienceExtractorPlugin",
     "EducationStatsExtractorPlugin", "WorkStatsExtractorPlugin",
     "ExtendedAnalysisExtractorPlugin"}

\* the declared fields: of the pydantic model, and for the experience plugin
\* of one entry of work_experiences
Schema(cls) ==
    CASE cls = "ProfileExtractor" -> {"name", "contact_number", "email"}
      [] cls = "SkillsExtractor" -> {"skills"}
      [] cls = "ExperienceExtractorPlugin" ->
           {"company", "start_date", "end_date", "location", "role"}
      [] cls = "EducationStatsExtractorPlugin" ->
           {"highest_degree", "highest_degree_status", "highest_degree_major",
            "highest_degree_school_prestige"}
      [] cls = "WorkStatsExtractorPlugin" ->
           {"highest_seniority_level", "primary_position_title",
            "average_tenure_at_company_years"}
      [] cls = "ExtendedAnalysisExtractorPlugin" ->
           {"wyoe", "relevant_wyoe", "eyoe", "relevant_eyoe"}

\* a key the dict does not have
NoKey == "absent"

\* the raw output as a dict: per declared field the key is missing, null, or
\* holds a value; {} after a failed call is the dict with every key missing
RawOutputs(cls) == [Schema(cls) -> {NoKey, "None", "value"}]

\* ExperienceExtractorPlugin.extract: exp.get(field) or <default>
EntryDefault(f) ==
    CASE f = "company" -> "Unknown Company"
      [] f = "start_date" -> ""
      [] f = "end_date" -> ""
      [] f = "location" -> "Not specified"
      [] f = "role" -> "Unknown Role"

\* process_output of each extractor, applied to a dict
process_output(cls, raw) ==
    CASE cls = "ProfileExtractor" ->
           [f \in DOMAIN raw |-> IF raw[f] = NoKey THEN "None" ELSE raw[f]]
      [] cls = "SkillsExtractor" ->
           [f \in DOMAIN raw |-> IF raw[f] = NoKey THEN "[]" ELSE raw[f]]
      [] cls = "ExperienceExtractorPlugin" ->
           [f \in DOMAIN raw |-> IF raw[f] = "value" THEN "value" ELSE EntryDefault(f)]
      [] cls = "EducationStatsExtractorPlugin" -> raw
      [] cls = "WorkStatsExtractorPlugin" -> raw
      [] cls = "ExtendedAnalysisExtractorPlugin" ->
           [f \in DOMAIN raw |-> IF raw[f] \in {NoKey, "None"} THEN "0.0" ELSE raw[f]]

OutInit ==
    /\ ListIdle
    /\ DateIdle
    /\ OrchOff
    /\ InstInit
    /\ CtxIdle
    /\ BatchIdle
    /\ LlmIdle
    /\ TokIdle
    /\ ProcIdle
    /\ YoeIdle
    /\ xpc = "start"
    /\ xcls \in OutExtractors
    /\ raw_output \in RawOutputs(xcls)
    /\ processed = <<>>

\* processed_result = self.process_output(result)
ProcessOutputStep ==
    /\ xpc = "start"
    /\ processed' = process_output(xcls, raw_output)
    /\ xpc' = "processed"
    /\ UNCHANGED <<xcls, raw_output, nonOutVars>>

OutNext == ProcessOutputStep

SpecOut == OutInit /\ [][OutNext]_vars

\* C17 (as claimed): after process_output, for every extractor and every
\* raw output, every declared field is defined
C17_NoFieldUndefined ==
    xpc = "processed" => \A f \in Schema(xcls) : processed[f] # NoKey

(***************************************************************************)
(* RelevantYoEExtractorPlugin.map_degree_to_years.  A str is the sequence  *)
(* of its characters, a number of years is counted in tenths of a year.    *)
(***************************************************************************)
UpperCase ==
    <<"A", "B", "C", "D", "E", "F", "G", "H", "I", "J", "K", "L", "M",
      "N", "O", "P", "Q", "R", "S", "T", "U", "V", "W", "X", "Y", "Z">>

LowerCase ==
    <<"a", "b", "c", "d", "e", "f", "g", "h", "i", "j", "k", "l", "m",
      "n", "o", "p", "q", "r", "s", "t", "u", "v", "w", "x", "y", "z">>

LowerChar(c) ==
    IF \E i \in 1..Len(UpperCase) : UpperCase[i] = c
      THEN LowerCase[CHOOSE i \in 1..Len(UpperCase) : UpperCase[i] = c]
      ELSE c

\* str.lower()
Lower(s) == [i \in 1..Len(s) |-> LowerChar(s[i])]

\* `term in s` for two str
Contains(term, s) ==
    \E i \in 0..(Len(s) - Len(term)) : SubSeq(s, i + 1, i + Len(term)) = term

\* any(term in s for term in terms)
AnyIn(terms, s) == \E i \in 1..Len(terms) : Contains(terms[i], s)

\* the Ph.D. / Doctorate terms
phd_terms ==
    <<<<"p", "h", "d">>,
      <<"d", "o", "c", "t", "o", "r", "a", "t", "e">>,
      <<"d", "o", "c", "t", "o", "r", " ", "o", "f">>,
      <<"p", "h", ".", "d">>,
      <<"p", "h", " ", "d">>,
      <<"d", ".", "p", "h", "i", "l">>,
      <<"d", "p", "h", "i", "l">>,
      <<"d", "o", "c", "t", "o", "r", "a", "l">>,
      <<"s", "c", ".", "d">>,
      <<"d", "r", ".">>,
      <<"d", "o", "k", "t", "o", "r">>,
      <<"p", "h", "i", "l", "o", "s", "o", "p", "h", "y">>,
      <<"p", "h", "i", "l", "o", "s", "o", "p", "h", "i", "a", "e">>>>

\* the Master's terms
masters_terms ==
    <<<<"m", "a", "s", "t", "e", "r">>,
      <<"m", "a", "s", "t", "e", "r", "s">>,
      <<"m", "s">>,
      <<"m", "a">>,
      <<"m", "b", "a">>,
      <<"m", "s", "c">>,
      <<"m", ".", "s", "c">>,
      <<"m", ".", "s", ".">>,
      <<"m", ".", "a", ".">>,
      <<"m", ".", "e", "n", "g">>,
      <<"m", "e", "n", "g">>,
      <<"m", ".", "e", "d">>,
      <<"m", "e", "d">>,
      <<"m", ".", "p", "h", "i", "l">>,
      <<"m", "p", "h", "i", "l">>,
      <<"m", ".", "r", "e", "s">>,
      <<"m", "r", "e", "s">>,
      <<"m", ".", "s", "t">>,
      <<"m", "s", "t">>,
      <<"m", "a", "g", "i", "s", "t", "e", "r">>,
      <<"m", ".", "a", "r", "c", "h">>,
      <<"m", "a", "r", "c", "h">>,
      <<"m", ".", "t", "e", "c", "h">>,
      <<"m", "t", "e", "c", "h">>,
      <<"l", "l", "m">>,
      <<"l", "l", ".", "m">>,
      <<"m", "a", "c", "c">>,
      <<"m", ".", "a", "c", "c">>,
      <<"m", "f", "i", "n">>,
      <<"m", ".", "f", "i", "n">>,
      <<"m", "p", "a">>,
      <<"m", ".", "p", ".", "a">>,
      <<"m", "p", "p">>,
      <<"m", ".", "p", ".", "p">>,
      <<"m", "s", "w">>,
      <<"m", ".", "s", ".", "w">>,
      <<"m", "l", "s">>,
      <<"m", ".", "l", ".", "s">>,
      <<"m", "s", "n">>,
      <<"m", ".", "s", ".", "n">>>>

\* the Bachelor's terms
bachelor_terms ==
    <<<<"b", "a", "c", "h", "e", "l", "o", "r">>,
      <<"b", "a", "c", "h", "e", "l", "o", "r", "s">>,
      <<"b", "s">>,
      <<"b", "a">>,
      <<"b", "s", "c">>,
      <<"b", ".", "s", "c">>,
      <<"b", ".", "s", ".">>,
      <<"b", ".", "a", ".">>,
      <<"b", ".", "e", ".">>,
      <<"b", "e">>,
      <<"b", ".", "t", "e", "c", "h">>,
      <<"b", "t", "e", "c", "h">>,
      <<"b", ".", "e", "n", "g">>,
      <<"b", "e", "n", "g">>,
      <<"b", ".", "a", "r", "c", "h">>,
      <<"b", "a", "r", "c", "h">>,
      <<"b", ".", "c", "o", "m">>,
      <<"b", "c", "o", "m">>,
      <<"b", "f", "a">>,
      <<"b", ".", "f", ".", "a", ".">>,
      <<"b", ".", "b", ".", "a">>,
      <<"b", "b", "a">>,
      <<"l", "l", ".", "b">>,
      <<"l", "l", "b">>,
      <<"b", ".", "e", "d">>,
      <<"b", "e", "d">>,
      <<"b", ".", "n">>,
      <<"b", "n">>,
      <<"b", ".", "n", "u", "r", "s">>,
      <<"b", " ", "n", "u", "r", "s", "i", "n", "g">>,
      <<"b", "s", "n">>,
      <<"b", ".", "s", ".", "n">>,
      <<"b", "s", "w">>,
      <<"b", ".", "s", ".", "w">>,
      <<"u", "n", "d", "e", "r", "g", "r", "a", "d", "u", "a", "t", "e">>,
      <<"l", "a", "u", "r", "e", "a">>,
      <<"l", "i", "c", "e", "n", "c", "i", "a", "t", "u", "r", "a">>,
      <<"b", "m", "u", "s">>,
      <<"b", ".", "m", "u", "s">>,
      <<"b", "s", "c", " ", "h", "o", "n", "s">>,
      <<"b", ".", "s", "c", ".", " ", "h", "o", "n", "s">>>>

\* the Associate's terms
associate_terms ==
    <<<<"a", "s", "s", "o", "c", "i", "a", "t", "e">>,
      <<"a", "s", "s", "o", "c", "i", "a", "t", "e", "s">>,
      <<"a", "s", "s", "o", "c", "i", "a", "t", "e", "'", "s">>,
      <<"a", "s">>,
      <<"a", "a">>,
      <<"a", ".", "s", ".">>,
      <<"a", ".", "a", ".">>,
      <<"a", ".", "a", ".", "s", ".">>,
      <<"a", "a", "s">>,
      <<"a", ".", "e", ".">>,
      <<"a", "e">>,
      <<"a", ".", "e", ".", "t">>,
      <<"a", "e", "t">>,
      <<"a", ".", "b", ".", "a">>,
      <<"a", "b", "a">>,
      <<"a", ".", "s", ".", "n">>,
      <<"a", "s", "n">>,
      <<"f", "o", "u", "n", "d", "a", "t", "i", "o", "n", " ", "d", "e", "g", "r", "e", "e">>,
      <<"h", "i", "g", "h", "e", "r", " ", "n", "a", "t", "i", "o", "n", "a", "l", " ", "d", "i", "p", "l", "o", "m", "a">>,
      <<"h", "n", "d">>,
      <<"t", "w", "o", "-", "y", "e", "a", "r", " ", "d", "e", "g", "r", "e", "e">>,
      <<"a", ".", "a", ".", "b">>,
      <<"a", "a", "b">>,
      <<"a", ".", "g", ".", "s">>,
      <<"a", "g", "s">>>>

\* the Diploma / Certificate terms
diploma_terms ==
    <<<<"d", "i", "p", "l", "o", "m", "a">>,
      <<"c", "e", "r", "t", "i", "f", "i", "c", "a", "t", "e">>,
      <<"o", "n", "l", "i", "n", "e">>,
      <<"c", "e", "r", "t", "i", "f", "i", "c", "a", "t", "i", "o", "n">>,
      <<"c", "e", "r", "t">>,
      <<"b", "o", "o", "t", "c", "a", "m", "p">>,
      <<"p", "r", "o", "f", "e", "s", "s", "i", "o", "n", "a", "l", " ", "c", "e", "r", "t", "i", "f", "i", "c", "a", "t", "i", "o", "n">>,
      <<"p", "r", "o", "f", " ", "c", "e", "r", "t">>,
      <<"n", "a", "n", "o", "d", "e", "g", "r", "e", "e">>,
      <<"m", "i", "c", "r", "o", "d", "e", "g", "r", "e", "e">>,
      <<"p", "o", "s", "t", "-", "g", "r", "a", "d", "u", "a", "t", "e", " ", "d", "i", "p", "l", "o", "m", "a">>,
      <<"p", "o", "s", "t", " ", "g", "r", "a", "d", "u", "a", "t", "e", " ", "d", "i", "p", "l", "o", "m", "a">>,
      <<"p", "g", "d">>,
      <<"p", ".", "g", ".", "d", ".">>,
      <<"s", "h", "o", "r", "t", " ", "c", "o", "u", "r", "s", "e">>,
      <<"g", "r", "a", "d", "u", "a", "t", "e", " ", "d", "i", "p", "l", "o", "m", "a">>,
      <<"g", "r", "a", "d", " ", "d", "i", "p", "l", "o", "m", "a">>,
      <<"g", "r", "a", "d", " ", "d", "i", "p">>,
      <<"g", "r", "a", "d", ".", "d", "i", "p", ".">>,
      <<"t", "e", "c", "h", "n", "i", "c", "a", "l", " ", "d", "i", "p", "l", "o", "m", "a">>,
      <<"v", "o", "c", "a", "t", "i", "o", "n", "a", "l", " ", "c", "e", "r", "t", "i", "f", "i", "c", "a", "t", "e">>,
      <<"a", "p", "p", "r", "e", "n", "t", "i", "c", "e", "s", "h", "i", "p">>,
      <<"t", "r", "a", "d", "e", " ", "c", "e", "r", "t", "i", "f", "i", "c", "a", "t", "e">>,
      <<"t", "e", "c", "h", " ", "c", "e", "r", "t">>>>

\* the terms that rule out the engineering inference
higher_terms ==
    <<<<"m", "a", "s", "t", "e", "r">>,
      <<"p", "h", "d">>,
      <<"d", "o", "c", "t", "o", "r">>>>

Engineer == <<"e", "n", "g", "i", "n", "e", "e", "r">>

Pursuing == <<"p", "u", "r", "s", "u", "i", "n", "g">>

Completed == <<"c", "o", "m", "p", "l", "e", "t", "e", "d">>

\* the if / elif chain over the lowered degree
YearsFor(highest_degree, is_pursuing) ==
    IF AnyIn(phd_terms, highest_degree) THEN (IF is_pursuing THEN 70 ELSE 80)
    ELSE IF AnyIn(masters_terms, highest_degree) THEN (IF is_pursuing THEN 30 ELSE 60)
    ELSE IF AnyIn(bachelor_terms, highest_degree) THEN (IF is_pursuing THEN 20 ELSE 40)
    ELSE IF AnyIn(associate_terms, highest_degree) THEN (IF is_pursuing THEN 10 ELSE 20)
    ELSE IF AnyIn(diploma_terms, highest_degree) THEN (IF is_pursuing THEN 5 ELSE 10)
    ELSE IF Contains(Engineer, highest_degree) /\ ~AnyIn(higher_terms, highest_degree)
      THEN (IF is_pursuing THEN 20 ELSE 40)
    ELSE (IF is_pursuing THEN 5 ELSE 10)

\* map_degree_to_years matching the degree as it is written
map_degree_case_sensitive(degree_info) ==
    IF ~degree_info.given \/ ~degree_info.has_degree
      THEN Null
      ELSE YearsFor(degree_info.highest_degree,
                    Lower(degree_info.highest_degree_status) = Pursuing)

\* map_degree_to_years: None without a highest_degree key; a None or empty
\* degree or status is read as ""
map_degree_to_years(degree_info) ==
    IF ~degree_info.given \/ ~degree_info.has_degree
      THEN Null
      ELSE YearsFor(Lower(degree_info.highest_degree),
                    Lower(degree_info.highest_degree_status) = Pursuing)

\* the degree names tried: a title followed by a subject
DegreeTitles ==
    {<<"P", "h", "D">>,
     <<"M", "a", "s", "t", "e", "r", " ", "o", "f", " ", "S", "c", "i", "e", "n", "c", "e">>,
     <<"B", "S", "c">>,
     <<"B", "a", "c", "h", "e", "l", "o", "r", " ", "o", "f", " ", "S", "c", "i", "e", "n", "c", "e">>,
     <<"B", "a", "c", "h", "e", "l", "o", "r", " ", "o", "f", " ", "A", "r", "t", "s">>,
     <<"A", "s", "s", "o", "c", "i", "a", "t", "e", " ", "D", "e", "g", "r", "e", "e">>,
     <<"D", "i", "p", "l", "o", "m", "a">>,
     <<"C", "e", "r", "t", "i", "f", "i", "c", "a", "t", "e">>,
     <<"X", "y", "z", "z", "y", " ", "S", "t", "u", "d", "i", "e", "s">>,
     <<"E", "n", "g", "i", "n", "e", "e", "r", "i", "n", "g">>}

DegreeSubjects ==
    {<<>>,
     <<" ", "i", "n", " ", "P", "h", "y", "s", "i", "c", "s">>,
     <<" ", "C", "o", "m", "p", "u", "t", "e", "r", " ", "S", "c", "i", "e", "n", "c", "e">>,
     <<" ", "i", "n", " ", "M", "a", "t", "h", "e", "m", "a", "t", "i", "c", "s">>,
     <<" ", "i", "n", " ", "N", "u", "r", "s", "i", "n", "g">>}

Degrees == {t \o s : t \in DegreeTitles, s \in DegreeSubjects}

\* highest_degree_status as the LLM may write it; NoStr is None
Statuses == {Completed, Pursuing, <<"P", "u", "r", "s", "u", "i", "n", "g">>, NoStr}

\* education_info: None or {}, a dict without highest_degree, or a dict
\* with a degree (NoStr: None) and a status
EducationInfos ==
    {NoInfo}
    \cup [given : {TRUE}, has_degree : {FALSE}, highest_degree : {NoStr},
          highest_degree_status : Statuses]
    \cup [given : {TRUE}, has_degree : {TRUE}, highest_degree : Degrees \cup {NoStr},
          highest_degree_status : Statuses]

DegreeInit ==
    /\ ListIdle
    /\ DateIdle
    /\ OrchOff
    /\ InstInit
    /\ CtxIdle
    /\ BatchIdle
    /\ LlmIdle
    /\ TokIdle
    /\ ProcIdle
    /\ OutIdle
    /\ ypc = "start"
    /\ education_info \in EducationInfos
    /\ llm_result = [f \in YoeFields |-> Null]
    /\ mapped_years = Null
    /\ result_dict = [f \in YoeFields |-> Null]
    /\ result_again = [f \in YoeFields |-> Null]

\* mapped_years = self.map_degree_to_years(education_info)
MapDegree ==
    /\ ypc = "start"
    /\ mapped_years' = map_degree_to_years(education_info)
    /\ ypc' = "mapped"
    /\ UNCHANGED <<education_info, llm_result, result_dict, result_again,
                   nonYoeVars>>

DegreeNext == MapDegree

SpecDegree == DegreeInit /\ [][DegreeNext]_vars

\* s begins with the word w
Begins(w, s) == Len(s) >= Len(w) /\ SubSeq(s, 1, Len(w)) = w

\* the degree families by the word a degree name begins with, and their
\* years completed / pursuing
Families ==
    {[word |-> <<"P", "h", "D">>, completed |-> 80, pursuing |-> 70],
     [word |-> <<"M", "a", "s", "t", "e", "r">>, completed |-> 60, pursuing |-> 30],
     [word |-> <<"B", "a", "c", "h", "e", "l", "o", "r">>, completed |-> 40, pursuing |-> 20],
     [word |-> <<"B", "S", "c">>, completed |-> 40, pursuing |-> 20],
     [word |-> <<"A", "s", "s", "o", "c", "i", "a", "t", "e">>, completed |-> 20, pursuing |-> 10],
     [word |-> <<"D", "i", "p", "l", "o", "m", "a">>, completed |-> 10, pursuing |-> 5],
     [word |-> <<"C", "e", "r", "t", "i", "f", "i", "c", "a", "t", "e">>, completed |-> 10, pursuing |-> 5]}

Mapped(degree, status) ==
    /\ ypc = "mapped"
    /\ education_info.given
    /\ education_info.has_degree
    /\ education_info.highest_degree = degree
    /\ education_info.highest_degree_status = status

\* C19 (as claimed): a degree of a family maps to that family's years: a
\* PhD to 8 / 7, a Master's to 6 / 3, a Bachelor's to 4 / 2, an Associate's
\* to 2 / 1, a Diploma or Certificate to 1 / 0.5 -- so 'Bachelor of Arts in
\* Mathematics' to 4 / 2 and 'Diploma in Nursing' to 1 / 0.5
C19_DegreeFamilies ==
    \A fam \in Families : \A d \in Degrees :
        /\ (Begins(fam.word, d) /\ Mapped(d, Completed)) => mapped_years = fam.completed
        /\ (Begins(fam.word, d) /\ Mapped(d, Pursuing)) => mapped_years = fam.pursuing

\* C20: the documented examples
C20_DocumentedExamples ==
    /\ Mapped(<<"P", "h", "D", " ", "i", "n", " ", "P", "h", "y", "s", "i", "c", "s">>, Completed) => mapped_years = 80
    /\ Mapped(<<"P", "h", "D", " ", "i", "n", " ", "P", "h", "y", "s", "i", "c", "s">>, Pursuing) => mapped_years = 70
    /\ Mapped(<<"M", "a", "s", "t", "e", "r", " ", "o", "f", " ", "S", "c", "i", "e", "n", "c", "e">>, Completed) => mapped_years = 60
    /\ Mapped(<<"M", "a", "s", "t", "e", "r", " ", "o", "f", " ", "S", "c", "i", "e", "n", "c", "e">>, Pursuing) => mapped_years = 30
    /\ Mapped(<<"B", "S", "c", " ", "C", "o", "m", "p", "u", "t", "e", "r", " ", "S", "c", "i", "e", "n", "c", "e">>, Completed) => mapped_years = 40
    /\ Mapped(<<"B", "a", "c", "h", "e", "l", "o", "r", " ", "o", "f", " ", "S", "c", "i", "e", "n", "c", "e">>, Completed) => mapped_years = 40
    /\ Mapped(<<"A", "s", "s", "o", "c", "i", "a", "t", "e", " ", "D", "e", "g", "r", "e", "e">>, Completed) => mapped_years = 20
    /\ Mapped(<<"X", "y", "z", "z", "y", " ", "S", "t", "u", "d", "i", "e", "s">>, Completed) => mapped_years = 10

\* C20 witness: 'BSc Computer Science', completed, was mapped to 4.0
C20_Witness ==
    /\ Mapped(<<"B", "S", "c", " ", "C", "o", "m", "p", "u", "t", "e", "r", " ", "S", "c", "i", "e", "n", "c", "e">>, Completed)
    /\ mapped_years = 40

(***************************************************************************)
(* RelevantYoEExtractorPlugin.process_output.                              *)
(***************************************************************************)
\* Python's `a or b` on two numbers that may be None
Or(a, b) == IF a # Null /\ a # 0 THEN a ELSE b

Abs(x) == IF x < 0 THEN 0 - x ELSE x

\* one round of the field_mapping loop: copy the old name's value to the new
\* name or the other way round when only one of them has a value
SyncPair(d, old_name, new_name) ==
    IF d[old_name] # Null /\ d[new_name] = Null
      THEN [d EXCEPT ![new_name] = d[old_name]]
    ELSE IF d[new_name] # Null /\ d[old_name] = Null
      THEN [d EXCEPT ![old_name] = d[new_name]]
    ELSE d

Synced(d) ==
    SyncPair(SyncPair(SyncPair(d, "relevant_education_years", "relevant_edu_yoe"),
                      "relevant_job_experience_years", "relevant_work_yoe"),
             "total_relevant_experience_years", "relevant_total_yoe")

\* abs(current_years - mapped_years) > mapped_years * 0.2, in tenths
Diverges(current_years, mapped) == 5 * Abs(current_years - mapped) > mapped

\* the `if education_info:` block: all_edu_yoe is filled when it is None;
\* the two relevant-education fields are set when current_years is None or
\* differs from the mapping by more than a fifth of it
Corrected(d, info, mapped) ==
    LET current_years == Or(d["relevant_edu_yoe"], d["relevant_education_years"])
        all_edu_years == d["all_edu_yoe"]
        d1 == IF all_edu_years = Null
                THEN [d EXCEPT !["all_edu_yoe"] = mapped] ELSE d
    IN  IF ~info.given \/ mapped = Null THEN d
        ELSE IF current_years = Null \/ Diverges(current_years, mapped)
          THEN [d1 EXCEPT !["relevant_education_years"] = mapped,
                          !["relevant_edu_yoe"] = mapped]
        ELSE d1

\* totals that add onto the total already stored
TotalsAccumulating(d) ==
    LET stored == IF d["relevant_total_yoe"] = Null THEN 0 ELSE d["relevant_total_yoe"]
        has_relevant ==
            /\ (d["relevant_edu_yoe"] # Null \/ d["relevant_education_years"] # Null)
            /\ (d["relevant_work_yoe"] # Null \/ d["relevant_job_experience_years"] # Null)
        calculated_total ==
            stored + Or(d["relevant_edu_yoe"], d["relevant_education_years"])
            + Or(d["relevant_work_yoe"], d["relevant_job_experience_years"])
    IN  IF has_relevant
          THEN [d EXCEPT !["relevant_total_yoe"] = calculated_total,
                         !["total_relevant_experience_years"] = calculated_total]
          ELSE d

\* the two totals
Totals(d) ==
    LET has_relevant ==
            /\ (d["relevant_edu_yoe"] # Null \/ d["relevant_education_years"] # Null)
            /\ (d["relevant_work_yoe"] # Null \/ d["relevant_job_experience_years"] # Null)
        calculated_total ==
            Or(d["relevant_edu_yoe"], d["relevant_education_years"])
            + Or(d["relevant_work_yoe"], d["relevant_job_experience_years"])
        d1 == IF has_relevant
                THEN [d EXCEPT !["relevant_total_yoe"] = calculated_total,
                               !["total_relevant_experience_years"] = calculated_total]
                ELSE d
    IN  IF d1["all_edu_yoe"] # Null /\ d1["all_work_yoe"] # Null
          THEN [d1 EXCEPT !["all_total_yoe"] = d1["all_edu_yoe"] + d1["all_work_yoe"]]
          ELSE d1

\* the education_stats results tried
YoeInfos ==
    {NoInfo,
     [given |-> TRUE, has_degree |-> FALSE, highest_degree |-> NoStr,
      highest_degree_status |-> Completed],
     [given |-> TRUE, has_degree |-> TRUE,
      highest_degree |-> <<"B", "a", "c", "h", "e", "l", "o", "r", " ", "o", "f", " ", "S", "c", "i", "e", "n", "c", "e">>,
      highest_degree_status |-> Completed],
     [given |-> TRUE, has_degree |-> TRUE,
      highest_degree |-> <<"B", "a", "c", "h", "e", "l", "o", "r", " ", "o", "f", " ", "S", "c", "i", "e", "n", "c", "e">>,
      highest_degree_status |-> Pursuing],
     [given |-> TRUE, has_degree |-> TRUE,
      highest_degree |-> <<"P", "h", "D", " ", "i", "n", " ", "P", "h", "y", "s", "i", "c", "s">>,
      highest_degree_status |-> Completed],
     [given |-> TRUE, has_degree |-> TRUE,
      highest_degree |-> <<"C", "e", "r", "t", "i", "f", "i", "c", "a", "t", "e">>,
      highest_degree_status |-> Completed]}

\* the education years the LLM may give, in tenths: none, 0, and values
\* on both sides of the band of a fifth around 4.0 (3.2 .. 4.8)
EduYears == {Null, 0, 31, 32, 40, 48, 49}

\* the LLM results tried
LlmResults ==
    {[f \in YoeFields |->
        CASE f = "relevant_education_years" -> old
          [] f = "relevant_edu_yoe" -> new
          [] f = "all_edu_yoe" -> all
          [] f = "relevant_work_yoe" -> rw
          [] f = "all_work_yoe" -> aw
          [] OTHER -> Null] :
      old \in EduYears, new \in EduYears, all \in EduYears,
      rw \in {Null, 20}, aw \in {Null, 50}}

YoeInit ==
    /\ ListIdle
    /\ DateIdle
    /\ OrchOff
    /\ InstInit
    /\ CtxIdle
    /\ BatchIdle
    /\ LlmIdle
    /\ TokIdle
    /\ ProcIdle
    /\ OutIdle
    /\ ypc = "start"
    /\ education_info \in YoeInfos
    /\ llm_result \in LlmResults
    /\ mapped_years = Null
    /\ result_dict = [f \in YoeFields |-> Null]
    /\ result_again = [f \in YoeFields |-> Null]

\* processed_result = self.process_output(result, education_stats)
ProcessOutputYoe ==
    /\ ypc = "start"
    /\ mapped_years' =
         (IF education_info.given THEN map_degree_to_years(education_info) ELSE Null)
    /\ result_dict' = Totals(Corrected(Synced(llm_result), education_info, mapped_years'))
    /\ ypc' = "processed"
    /\ UNCHANGED <<education_info, llm_result, result_again, nonYoeVars>>

\* process_output is called once more with the dict it has just changed in
\* place and the same education_info
ProcessOutputAgain ==
    /\ ypc = "processed"
    /\ result_again' = Totals(Corrected(Synced(result_dict), education_info, mapped_years))
    /\ ypc' = "processed_twice"
    /\ UNCHANGED <<education_info, llm_result, mapped_years, result_dict,
                   nonYoeVars>>

YoeNext ==
    \/ ProcessOutputYoe
    \/ ProcessOutputAgain

SpecYoe == YoeInit /\ [][YoeNext]_vars

EducationYearsFields == {"relevant_education_years", "relevant_edu_yoe", "all_edu_yoe"}

\* C18 (as claimed): when the degree maps to M years, every education-years
\* field the LLM left null is M after process_output, every one whose value
\* v has |v - M| > 0.2 * M is M, and every other one still is v
C18_FillAndOverride ==
    (ypc = "processed" /\ mapped_years # Null) =>
        \A f \in EducationYearsFields :
            result_dict[f] =
                IF llm_result[f] = Null \/ Diverges(llm_result[f], mapped_years)
                  THEN mapped_years
                  ELSE llm_result[f]

\* C21: a second process_output call, on the dict the first call normalised
\* in place and with the same education_info, returns what the first call
\* returned
C21_SecondCallSame ==
    ypc = "processed_twice" => result_again = result_dict

\* C21 witness: the first call changed the LLM's relevant education years to
\* the mapped years and computed a total, and the second call has returned
C21_Witness ==
    /\ ypc = "processed_twice"
    /\ llm_result["relevant_edu_yoe"] \notin {Null, mapped_years}
    /\ result_dict["relevant_edu_yoe"] = mapped_years
    /\ result_dict["relevant_total_yoe"] # Null

\* C22 (as claimed): when the model call and the parse succeeded and gave a
\* dict or a model instance, extract_with_llm returns that result and a usage
\* whose source is not "error", whatever the provider reported and whether or
\* not the template has the format_instructions field
C22_SuccessIsReturned ==
    (LlmEnded /\ llmIn.fault = "none" /\ llmIn.kind \in {"dict", "model"}) =>
        /\ result # EmptyResult
        /\ token_usage.source # "error"

\* C23 (as claimed): when extract_with_optimized_plugins has returned, the
\* job_description of the shared relevant_yoe_extractor is the one it had
\* before the call (the default the instance was constructed with)
C23_JobDescriptionRestored ==
    opc = "done" => job_description = DefaultJD

\* the call of thread c has built its prompt input (prepare_input_data is
\* behind it)
InputBuilt(c) == frame[c].pc \in {"try", "restore_jd", "restore_date"} \cup CtxDone

\* C24 (as claimed): with the extract calls of several threads interleaving on
\* one instance, the prompt input each call built holds the job description
\* and the submission date that call was given
C24_OwnContextInPrompt ==
    \A c \in Callers :
        (InputBuilt(c) /\ frame[c].in_jd # NoneV) =>
            /\ frame[c].jd = JDOf(c) => frame[c].in_jd = JDOf(c)
            /\ frame[c].date = DateOf(c) => frame[c].in_date = DateOf(c)

\* C25 (as claimed): when a name of phase 1 or 2 is missing from the
\* registry, the record still holds the result of every extractor of that
\* phase that was submitted and returned a result
C25_SiblingsKept ==
    (opc = "done" /\ record.parsing_status = "success") =>
        \A p \in {1, 2} : \A e \in Launched(p) :
            (Launched(p) # PhaseSet(p) /\ outcome[e] = ValueOf(e)) =>
                record.fields[e] = ValueOf(e)

(***************************************************************************)
(* The list field of an LLM output on its way through an extractor:        *)
(* BaseExtractor.process_list_output (skills), the process_output of       *)
(* EducationExtractor and ExperienceExtractor, and the experience plugin's *)
(* extract; then what the caller of the extractor makes of the document.   *)
(***************************************************************************)
MaxItems == 2

ListExtractors ==
    {"SkillsExtractor", "EducationExtractor", "ExperienceExtractor",
     "ExperienceExtractorPlugin"}

NullList == [kind |-> "null", item |-> "none", n |-> 0]

EmptyList == [kind |-> "list", item |-> "none", n |-> 0]

ListOf(k, n) == [kind |-> "list", item |-> k, n |-> n]

\* a parsed JSON object: the key is missing, null, or a list of strings or
\* of objects
DictOutputs ==
    [shape : {"dict"},
     field : {NoList, NullList, EmptyList}
               \cup {ListOf(k, n) : k \in {"str", "dict"}, n \in 1..MaxItems}]

\* the item type the pydantic model of the extractor declares
ItemOf(cls) == IF cls = "SkillsExtractor" THEN "str" ELSE "model"

\* a validated instance of the extractor's pydantic model: the field is a
\* list of the declared item type
ObjectOutputs(cls) ==
    [shape : {"object"},
     field : {EmptyList} \cup {ListOf(ItemOf(cls), n) : n \in 1..MaxItems}]

Outputs(cls) == DictOutputs \cup ObjectOutputs(cls)

\* output.get(name, []) and getattr(output, name, []): the default is used
\* for a missing key only, a null value is returned as None
GetOrEmpty(o) == IF o.field = NoList THEN EmptyList ELSE o.field

\* `if items`: a non-empty list
Truthy(v) == v.kind = "list" /\ v.n > 0

ReturnedList(v) == [raised |-> FALSE, value |-> v]

RaisedInList == [raised |-> TRUE, value |-> NoList]

\* [item.model_dump() for item in items]
ModelDump(v) == ListOf("dict", v.n)

process_list_output(o) ==
    LET items == GetOrEmpty(o) IN
      IF o.shape = "dict"
        THEN ReturnedList(items)
        ELSE IF Truthy(items) /\ items.item = "model"
               THEN ReturnedList(ModelDump(items))
               ELSE ReturnedList(items)

\* EducationExtractor.process_output; ExperienceExtractor.process_output is
\* the same code on work_experiences
entries_process_output(o) ==
    IF o.shape = "dict"
      THEN LET educations == GetOrEmpty(o) IN
             IF Truthy(educations) /\ educations.item = "dict"
               THEN ReturnedList(educations)
               ELSE ReturnedList(EmptyList)
      ELSE IF o.field = NoList
             THEN RaisedInList
             ELSE IF ~Truthy(o.field)
                    THEN ReturnedList(EmptyList)
                    ELSE IF o.field.item = "model"
                           THEN ReturnedList(ModelDump(o.field))
                           ELSE RaisedInList

\* ExperienceExtractorPlugin.extract after extract_with_llm: .get / getattr
\* with default [], then len(processed_result["work_experiences"]), which
\* raises TypeError for None; the loop over the entries keeps the list
plugin_extract(o) ==
    LET work_experiences == GetOrEmpty(o) IN
      IF work_experiences.kind = "null"
        THEN RaisedInList
        ELSE ReturnedList(work_experiences)

ListOutput(cls, o) ==
    CASE cls = "SkillsExtractor" -> process_list_output(o)
      [] cls \in {"EducationExtractor", "ExperienceExtractor"} ->
           entries_process_output(o)
      [] cls = "ExperienceExtractorPlugin" -> plugin_extract(o)

\* Resume(skills=..., educations=..., work_experiences=...): the fields are
\* List[str], List[Education], List[WorkExperience]; pydantic rejects None
\* and items of another type
ResumeAccepts(cls, v) ==
    /\ v.kind = "list"
    /\ v.n > 0 => IF cls = "SkillsExtractor" THEN v.item = "str"
                  ELSE v.item \in {"dict", "model"}

\* ResumeProcessor.process_resume: an exception of extract or of
\* Resume.from_extractors_output is logged and None is returned
process_resume_list(cls, r) ==
    IF r.raised \/ ~ResumeAccepts(cls, r.value) THEN "None" ELSE "Resume"

ListInit ==
    /\ OrchOff
    /\ InstInit
    /\ CtxIdle
    /\ BatchIdle
    /\ LlmIdle
    /\ TokIdle
    /\ ProcIdle
    /\ OutIdle
    /\ YoeIdle
    /\ DateIdle
    /\ zpc = "start"
    /\ zcls \in ListExtractors
    /\ output \in Outputs(zcls)
    /\ list_result = NoListResult
    /\ document = "none"

\* the extractor turns the LLM output into its result dict
ProcessList ==
    /\ zpc = "start"
    /\ list_result' = ListOutput(zcls, output)
    /\ zpc' = "processed"
    /\ UNCHANGED <<zcls, output, document, nonListVars>>

\* the caller of extract: process_resume builds the Resume (legacy
\* extractors); extract_with_optimized_plugins catches the exception of the
\* plugin's future and builds its record
Consume ==
    /\ zpc = "processed"
    /\ document' = IF zcls = "ExperienceExtractorPlugin" THEN "record"
                   ELSE process_resume_list(zcls, list_result)
    /\ zpc' = "consumed"
    /\ UNCHANGED <<zcls, output, list_result, nonListVars>>

ListNext == ProcessList \/ Consume

SpecList == ListInit /\ [][ListNext]_vars

\* C26 (as claimed): when the list field of the LLM output is missing or
\* null, the extractor has not raised and has returned an empty list for the
\* field, and the document has not failed
C26_EmptyListForMissing ==
    (zpc \in {"processed", "consumed"} /\ output.field.kind \in {"absent", "null"}) =>
        /\ ~list_result.raised
        /\ list_result.value = EmptyList
        /\ document # "None"

\* C27 (as claimed): what parse_many_resumes returns has its rows in the
\* order of resume_paths, the i-th row being the one of the i-th path, in
\* sequential and in parallel mode
C27_InputOrder ==
    bpc = "returned" =>
        \A i \in 1..Len(data_list) : data_list[i].filename = i

\* C28 (as claimed): after process_output, when the relevant education years
\* and the relevant work years are both present, relevant_total_yoe is their
\* sum and each legacy-named field equals its new-named counterpart
C28_TotalsAndAliases ==
    (ypc \in {"processed", "processed_twice"}
       /\ result_dict["relevant_edu_yoe"] # Null
       /\ result_dict["relevant_work_yoe"] # Null) =>
        /\ result_dict["relevant_total_yoe"] =
             result_dict["relevant_edu_yoe"] + result_dict["relevant_work_yoe"]
        /\ result_dict["relevant_education_years"] = result_dict["relevant_edu_yoe"]
        /\ result_dict["relevant_job_experience_years"] = result_dict["relevant_work_yoe"]
        /\ result_dict["total_relevant_experience_years"] = result_dict["relevant_total_yoe"]

(***************************************************************************)
(* utils.common.calculate_experience, as YoeExtractor.process_output calls *)
(* it with the two dates of the LLM output.                                *)
(***************************************************************************)
Days == {1, 10, 15, 31}

Months == {1, 2, 6, 12}

Years == {2015, 2019, 2020}

\* the values tried for a date argument: None, "", a str that is no date,
\* a value that is no str, and the strs dd/mm/yyyy
DateArgs ==
    {NoDate}
    \cup {[kind |-> k, day |-> 0, month |-> 0, year |-> 0] :
            k \in {"empty", "text", "number"}}
    \cup [kind : {"date"}, day : Days, month : Months, year : Years]

IsLeap(y) == (y % 4 = 0 /\ y % 100 # 0) \/ y % 400 = 0

DaysIn(m, y) ==
    IF m = 2 THEN (IF IsLeap(y) THEN 29 ELSE 28)
    ELSE IF m \in {4, 6, 9, 11} THEN 30 ELSE 31

\* datetime.strptime(s, "%d/%m/%Y"): TypeError for a value that is no str,
\* ValueError for a str that does not match or names a day the month lacks
strptime(s) ==
    IF s.kind = "number" THEN "TypeError"
    ELSE IF s.kind # "date" \/ s.day > DaysIn(s.month, s.year) THEN "ValueError"
    ELSE "datetime"

\* `not s`: None and "" are false
Falsy(s) == s.kind \in {"None", "empty"}

ZeroExperience == [raised |-> FALSE, years |-> 0, months |-> 0]

RaisedExperience == [raised |-> TRUE, years |-> 0, months |-> 0]

\* calculate_experience: // and % of Python round towards minus infinity,
\* as \div and % do
calculate_experience(oldest, newest) ==
    IF Falsy(oldest) \/ Falsy(newest) THEN ZeroExperience
    ELSE IF strptime(oldest) = "TypeError" THEN RaisedExperience
    ELSE IF strptime(oldest) = "ValueError" THEN ZeroExperience
    ELSE IF strptime(newest) = "TypeError" THEN RaisedExperience
    ELSE IF strptime(newest) = "ValueError" THEN ZeroExperience
    ELSE LET diff == (newest.year - oldest.year) * 12
                       + (newest.month - oldest.month)
             total_months == IF newest.day < oldest.day THEN diff - 1 ELSE diff
         IN  [raised |-> FALSE, years |-> total_months \div 12,
              months |-> total_months % 12]

DateInit ==
    /\ OrchOff
    /\ InstInit
    /\ CtxIdle
    /\ BatchIdle
    /\ LlmIdle
    /\ TokIdle
    /\ ProcIdle
    /\ OutIdle
    /\ YoeIdle
    /\ ListIdle
    /\ cpc = "start"
    /\ oldest_date_str \in DateArgs
    /\ newest_date_str \in DateArgs
    /\ experience = NoExperience

\* YoeExtractor.process_output: {"YoE": calculate_experience(oldest, newest)}
CalculateExperience ==
    /\ cpc = "start"
    /\ LET e == calculate_experience(oldest_date_str, newest_date_str) IN
         /\ experience' = [years |-> e.years, months |-> e.months]
         /\ cpc' = IF e.raised THEN "raised" ELSE "returned"
    /\ UNCHANGED <<oldest_date_str, newest_date_str, nonDateVars>>

DateNext == CalculateExperience

SpecDate == DateInit /\ [][DateNext]_vars

ValidDate(s) == s.kind = "date" /\ s.day <= DaysIn(s.month, s.year)

\* the months from one date to the other, less one when the later date's day
\* of the month is the earlier
WholeMonths(oldest, newest) ==
    (newest.year - oldest.year) * 12 + (newest.month - oldest.month)
    - (IF newest.day < oldest.day THEN 1 ELSE 0)

\* C29 (as claimed): calculate_experience returns; "0 Years 0 Months" when
\* either date is missing or no valid dd/mm/yyyy date; for two valid dates
\* "X Years Y Months" with X >= 0, 0 <= Y <= 11 and 12 * X + Y the whole
\* months from oldest to newest
C29_YearsAndMonths ==
    cpc # "start" =>
        /\ cpc = "returned"
        /\ IF ValidDate(oldest_date_str) /\ ValidDate(newest_date_str)
             THEN /\ experience.years >= 0
                  /\ experience.months \in 0..11
                  /\ 12 * experience.years + experience.months =
                       WholeMonths(oldest_date_str, newest_date_str)
             ELSE experience = NoExperience

====
